---- MODULE Spec2Model ----
(***************************************************************************)
(* Model of zarrcompatibility's type-preserving serialization engine       *)
(* (src/src/zarrcompatibility/type_handlers.py).                           *)
(*                                                                         *)
(* A Python value is a record whose field k names its runtime kind.  The   *)
(* outcome of a call is either such a value or a record of kind "raise"    *)
(* that names the exception leaving the call.                              *)
(***************************************************************************)
EXTENDS Integers, Sequences, FiniteSets, TLC

(***************************************************************************)
(* Bounds of the model.                                                    *)
(***************************************************************************)
MaxLen == 2
MaxDepth == 2
MaxHandlers == 2
MaxCycles == 3
RecursionLimit == 5

(***************************************************************************)
(* Python values.                                                          *)
(***************************************************************************)
PyNone == [k |-> "none"]
PyBool(b) == [k |-> "bool", bv |-> b]
PyInt(n) == [k |-> "int", iv |-> n]
PyFloat(n) == [k |-> "float", fv |-> n]
PyStr(s) == [k |-> "str", sv |-> s]
PyList(items) == [k |-> "list", items |-> items]
PyTuple(items) == [k |-> "tuple", items |-> items]
PyDict(m) == [k |-> "dict", m |-> m]
PySet(elems) == [k |-> "set", elems |-> elems]
Date(y, mo, d) == [k |-> "date", y |-> y, mo |-> mo, d |-> d]
Time(h, mi, s) == [k |-> "time", h |-> h, mi |-> mi, s |-> s]
DateTime(y, mo, d, h, mi, s) ==
    [k |-> "datetime", y |-> y, mo |-> mo, d |-> d, h |-> h, mi |-> mi, s |-> s]
EnumMember(cls, name) == [k |-> "enum", cls |-> cls, name |-> name]
Uuid(hex) == [k |-> "uuid", hex |-> hex]
Dataclass(cls, fields) == [k |-> "dataclass", cls |-> cls, fields |-> fields]
Complex(re, im) == [k |-> "complex", re |-> re, im |-> im]
Bytes(bs) == [k |-> "bytes", bs |-> bs]
Decimal(neg, coeff, exp) == [k |-> "decimal", neg |-> neg, coeff |-> coeff, exp |-> exp]
Object(cls, id) == [k |-> "object", cls |-> cls, id |-> id]
Raise(exc) == [k |-> "raise", exc |-> exc]

\* A list or mapping object the caller holds: id tells it from every equal
\* container built later, which the constructors above leave without an id.
Identified(v, id) == [f \in (DOMAIN v) \cup {"id"} |-> IF f = "id" THEN id ELSE v[f]]

\* The value with the identities of its containers put aside, as == sees it.
RECURSIVE Anonymous(_)
Anonymous(v) ==
    IF v.k \in {"list", "tuple"}
    THEN [k |-> v.k, items |-> [i \in 1..Len(v.items) |-> Anonymous(v.items[i])]]
    ELSE IF v.k = "dict" THEN PyDict([key \in DOMAIN v.m |-> Anonymous(v.m[key])])
    ELSE v

IsRaise(r) == r.k = "raise"

EmptyDict == PyDict(<<>>)
Pair(key, v) == [x \in {key} |-> v]
Merge(f, g) == [x \in (DOMAIN f) \cup (DOMAIN g) |-> IF x \in DOMAIN f THEN f[x] ELSE g[x]]
HasKey(d, s) == PyStr(s) \in DOMAIN d.m
Get(d, s) == d.m[PyStr(s)]

(***************************************************************************)
(* Text helpers: a Python str is a TLA+ string, read character by          *)
(* character with SubSeq.                                                  *)
(***************************************************************************)
CharAt(s, i) == SubSeq(s, i, i)
Chars(s) == [i \in 1..Len(s) |-> CharAt(s, i)]

RECURSIVE LastIndexOf(_, _, _)
LastIndexOf(s, c, i) ==
    IF i = 0 THEN 0
    ELSE IF CharAt(s, i) = c THEN i
    ELSE LastIndexOf(s, c, i - 1)

\* str.rsplit(".", 1): the text before and after the last dot, or the
\* whole text when it holds no dot.
RSplitDot(s) ==
    LET i == LastIndexOf(s, ".", Len(s))
    IN  IF i = 0 THEN <<s>>
        ELSE <<SubSeq(s, 1, i - 1), SubSeq(s, i + 1, Len(s))>>

StartsWith(s, p) == Len(s) >= Len(p) /\ SubSeq(s, 1, Len(p)) = p

DigitChars == <<"0", "1", "2", "3", "4", "5", "6", "7", "8", "9">>
IsDigit(c) == \E i \in 1..10 : DigitChars[i] = c
DigitVal(c) == (CHOOSE i \in 1..10 : DigitChars[i] = c) - 1

RECURSIVE AllDigits(_)
AllDigits(s) == Len(s) = 0 \/ (IsDigit(CharAt(s, 1)) /\ AllDigits(SubSeq(s, 2, Len(s))))

RECURSIVE ParseNat(_, _)
ParseNat(s, acc) ==
    IF Len(s) = 0 THEN acc
    ELSE ParseNat(SubSeq(s, 2, Len(s)), acc * 10 + DigitVal(CharAt(s, 1)))

RECURSIVE ZeroPad(_, _)
ZeroPad(s, width) == IF Len(s) >= width THEN s ELSE ZeroPad("0" \o s, width)

(***************************************************************************)
(* The classes of the embedding application and of the host library that   *)
(* the model's values are instances of.  module, qualname and name are     *)
(* the class's __module__, __qualname__ and __name__.                      *)
(***************************************************************************)
EnumClass(module, qualname, name, members) ==
    [module |-> module, qualname |-> qualname, name |-> name, kind |-> "enum",
     members |-> members, fields |-> <<>>]
\* class Priority(IntEnum), class Color(str, Enum): an Enum class whose
\* members are instances of the mixed-in type as well.
MixinEnumClass(module, qualname, name, members, mixin) ==
    [module |-> module, qualname |-> qualname, name |-> name, kind |-> "enum",
     members |-> members, fields |-> <<>>, mixin |-> mixin]
DataclassClass(module, qualname, name, fields) ==
    [module |-> module, qualname |-> qualname, name |-> name, kind |-> "dataclass",
     members |-> <<>>, fields |-> fields]
PlainClass(module, name) ==
    [module |-> module, qualname |-> name, name |-> name, kind |-> "plain",
     members |-> <<>>, fields |-> <<>>]
\* A class whose __str__ raises.
UnprintableClass(module, name) ==
    [module |-> module, qualname |-> name, name |-> name, kind |-> "unprintable",
     members |-> <<>>, fields |-> <<>>]

ClassTable ==
    [ Status |-> EnumClass("mypkg", "Status", "Status",
                    [ACTIVE |-> PyStr("active"), VERSION |-> PyTuple(<<PyInt(1), PyInt(0)>>),
                     TAGS |-> Identified(PyList(<<PyStr("a")>>), 1)]),
      UserDataType |-> EnumClass("mypkg", "DataType", "DataType",
                    [float32 |-> PyStr("float32")]),
      ZarrDataType |-> EnumClass("zarr.core.metadata.v3", "DataType", "DataType",
                    [float32 |-> PyStr("float32")]),
      Mode |-> EnumClass("mypkg", "Outer.Mode", "Mode", [ON |-> PyStr("on")]),
      Priority |-> MixinEnumClass("mypkg", "Priority", "Priority", [LOW |-> PyInt(1)], "int"),
      Color |-> MixinEnumClass("mypkg", "Color", "Color", [RED |-> PyStr("red")], "str"),
      Rec |-> DataclassClass("mypkg", "Rec", "Rec", <<"name", "version">>),
      Box |-> DataclassClass("mypkg", "Box", "Box", <<"inner">>),
      Loc |-> DataclassClass("mypkg", "make.<locals>.Loc", "Loc", <<"v">>),
      Buffer |-> PlainClass("zarr.core.buffer", "Buffer"),
      ndarray |-> PlainClass("numpy", "ndarray"),
      UserBuffer |-> PlainClass("mypkg", "Buffer"),
      PrefixDtype |-> PlainClass("numpy_financial", "dtype"),
      Widget |-> PlainClass("mypkg", "Widget"),
      Unprintable |-> UnprintableClass("mypkg", "Unprintable") ]

ClassIds == DOMAIN ClassTable
Modules == {ClassTable[c].module : c \in ClassIds}

\* f"{cls.__module__}.{cls.__qualname__}"
QualifiedName(cls) == ClassTable[cls].module \o "." \o ClassTable[cls].qualname

\* type(obj).__module__ and type(obj).__name__
\* obj is None or isinstance(obj, (str, int, float, bool))
IsPrimitive(v) ==
    \/ v.k \in {"none", "bool", "int", "float", "str"}
    \/ v.k = "enum" /\ "mixin" \in DOMAIN ClassTable[v.cls]

TypeModule(obj) ==
    IF obj.k \in {"enum", "dataclass", "object"} THEN ClassTable[obj.cls].module
    ELSE IF obj.k \in {"date", "time", "datetime"} THEN "datetime"
    ELSE IF obj.k = "uuid" THEN "uuid"
    ELSE IF obj.k = "decimal" THEN "decimal"
    ELSE "builtins"
TypeName(obj) ==
    IF obj.k \in {"enum", "dataclass", "object"} THEN ClassTable[obj.cls].name
    ELSE IF obj.k = "none" THEN "NoneType"
    ELSE IF obj.k = "uuid" THEN "UUID"
    ELSE IF obj.k = "decimal" THEN "Decimal"
    ELSE obj.k

(***************************************************************************)
(* is_zarr_internal_object                                                 *)
(***************************************************************************)
zarr_internal_combinations ==
    << <<"zarr.core.metadata.v3", "ArrayV3Metadata">>,
       <<"zarr.core.group", "GroupMetadata">>,
       <<"zarr.core.buffer", "Buffer">>,
       <<"zarr.core.store", "Store">>,
       <<"zarr.core.chunk_grids", "ChunkGrid">>,
       <<"zarr.core.chunk_key_encodings", "ChunkKeyEncoding">>,
       <<"zarr.core.codecs", "Codec">>,
       <<"zarr.core.metadata", "ArrayMetadata">>,
       <<"zarr.core.chunk_grids", "ChunkManifest">>,
       <<"zarr.core.indexing", "Selection">> >>

is_zarr_internal_object(obj) ==
    LET obj_module == TypeModule(obj)
        obj_class_name == TypeName(obj)
    IN  \/ (obj_module = "zarr.core.metadata.v3" /\ obj_class_name = "DataType")
        \/ \E i \in 1..Len(zarr_internal_combinations) :
              /\ obj_module = zarr_internal_combinations[i][1]
              /\ obj_class_name = zarr_internal_combinations[i][2]
        \/ (obj_module # "" /\ StartsWith(obj_module, "numpy")
              /\ obj_class_name \in {"dtype", "ndarray"})

(***************************************************************************)
(* Iteration, hashing and construction as the interpreter performs them.   *)
(***************************************************************************)
RECURSIVE SetToSeq(_)
SetToSeq(S) ==
    IF S = {} THEN <<>>
    ELSE LET x == CHOOSE y \in S : TRUE IN <<x>> \o SetToSeq(S \ {x})

\* The first exception raised while the elements are produced in order.
AnyRaise(rs) == \E i \in 1..Len(rs) : IsRaise(rs[i])
FirstRaise(rs) ==
    rs[CHOOSE i \in 1..Len(rs) : IsRaise(rs[i]) /\ \A j \in 1..(i - 1) : ~IsRaise(rs[j])]

\* iter(v): the sequence of the elements, or the TypeError of a value that
\* is not iterable.  A mapping yields its keys, a str its characters.
Iter(v) ==
    IF v.k \in {"list", "tuple"} THEN v.items
    ELSE IF v.k = "str" THEN [i \in 1..Len(v.sv) |-> PyStr(CharAt(v.sv, i))]
    ELSE IF v.k = "dict" THEN SetToSeq(DOMAIN v.m)
    ELSE IF v.k = "set" THEN SetToSeq(v.elems)
    ELSE IF v.k = "bytes" THEN [i \in 1..Len(v.bs) |-> PyInt(v.bs[i])]
    ELSE Raise("TypeError")
IsIterable(v) == v.k \in {"list", "tuple", "str", "dict", "set", "bytes"}

RECURSIVE Hashable(_)
Hashable(v) ==
    IF v.k \in {"list", "dict", "set", "dataclass"} THEN FALSE
    ELSE IF v.k = "tuple" THEN \A i \in 1..Len(v.items) : Hashable(v.items[i])
    ELSE TRUE

\* set(<generator>) over already decoded elements.
MakeSet(items) ==
    IF \E i \in 1..Len(items) : ~Hashable(items[i]) THEN Raise("TypeError")
    ELSE PySet({items[i] : i \in 1..Len(items)})

ClassRef(c) == [k |-> "class", cls |-> c]

\* __import__(module_name, fromlist=[class_name]) followed by
\* getattr(module, class_name): a reference to a class of ClassTable, or the
\* exception the lookup raises.  Only top-level classes are attributes of
\* their module.
ResolveClass(module_name, class_name) ==
    IF module_name = "" THEN Raise("ValueError")
    ELSE IF module_name \notin Modules THEN Raise("ModuleNotFoundError")
    ELSE IF \E c \in ClassIds : ClassTable[c].module = module_name
                                  /\ ClassTable[c].qualname = class_name
         THEN ClassRef(CHOOSE c \in ClassIds : ClassTable[c].module = module_name
                                                 /\ ClassTable[c].qualname = class_name)
         ELSE Raise("AttributeError")

\* module_name, class_name = data["__class__"].rsplit(".", 1), then the
\* import: the class reference or the exception raised on the way.
ImportClass(name) ==
    IF name.k # "str" THEN Raise("AttributeError")
    ELSE LET parts == RSplitDot(name.sv)
         IN  IF Len(parts) # 2 THEN Raise("ValueError")
             ELSE ResolveClass(parts[1], parts[2])

\* cls(value): the one-argument call of a resolved class.
CallWithValue(cls, value) ==
    LET c == ClassTable[cls]
    IN  IF c.kind = "enum"
        THEN IF \E n \in DOMAIN c.members : Anonymous(c.members[n]) = Anonymous(value)
             THEN EnumMember(cls, CHOOSE n \in DOMAIN c.members :
                                     Anonymous(c.members[n]) = Anonymous(value))
             ELSE Raise("ValueError")
        ELSE IF c.kind = "dataclass"
        THEN IF Len(c.fields) = 1
             THEN Dataclass(cls, [f \in {c.fields[1]} |-> value])
             ELSE Raise("TypeError")
        ELSE Raise("TypeError")

\* cls(**kwargs): the keyword call of a resolved class.
CallWithKwargs(cls, kwargs) ==
    LET c == ClassTable[cls]
    IN  IF kwargs.k # "dict" THEN Raise("TypeError")
        ELSE IF \E key \in DOMAIN kwargs.m : key.k # "str" THEN Raise("TypeError")
        ELSE LET names == {key.sv : key \in DOMAIN kwargs.m}
             IN  IF c.kind = "dataclass"
                 THEN IF names = {c.fields[i] : i \in 1..Len(c.fields)}
                      THEN Dataclass(cls, [f \in names |-> kwargs.m[PyStr(f)]])
                      ELSE Raise("TypeError")
                 ELSE IF c.kind = "enum"
                 THEN IF names = {"value"}
                      THEN CallWithValue(cls, kwargs.m[PyStr("value")])
                      ELSE Raise("TypeError")
                 ELSE IF names = {} THEN Object(cls, 0)
                 ELSE Raise("TypeError")

\* A mutation: a flattening of the record itself that leaves the values of
\* its fields as they are.
asdict_Shallow(obj) ==
    IF obj.k = "dataclass"
    THEN PyDict([key \in {PyStr(f) : f \in DOMAIN obj.fields} |-> obj.fields[key.sv]])
    ELSE obj

\* dataclasses.asdict: records become field mappings at every depth of
\* lists, tuples and mappings; any other value is copied.
RECURSIVE asdict(_)
asdict(obj) ==
    IF obj.k = "dataclass"
    THEN PyDict([key \in {PyStr(f) : f \in DOMAIN obj.fields} |-> asdict(obj.fields[key.sv])])
    ELSE IF obj.k \in {"list", "tuple"}
    THEN [obj EXCEPT !.items = [i \in 1..Len(obj.items) |-> asdict(obj.items[i])]]
    ELSE IF obj.k = "dict"
    THEN PyDict([key \in {asdict(x) : x \in DOMAIN obj.m} |->
                    asdict(obj.m[CHOOSE x \in DOMAIN obj.m : asdict(x) = key])])
    ELSE obj

(***************************************************************************)
(* Text conversions of the standard library that the handlers call.        *)
(***************************************************************************)
IsLeap(y) == (y % 4 = 0 /\ y % 100 # 0) \/ y % 400 = 0
DaysInMonth(y, mo) ==
    IF mo = 2 THEN (IF IsLeap(y) THEN 29 ELSE 28)
    ELSE IF mo \in {4, 6, 9, 11} THEN 30 ELSE 31

DateIso(y, mo, d) ==
    ZeroPad(ToString(y), 4) \o "-" \o ZeroPad(ToString(mo), 2) \o "-" \o ZeroPad(ToString(d), 2)
TimeIso(h, mi, sec) ==
    ZeroPad(ToString(h), 2) \o ":" \o ZeroPad(ToString(mi), 2) \o ":" \o ZeroPad(ToString(sec), 2)

\* obj.isoformat() of a date, a time or a datetime without microseconds
\* and without time zone.
isoformat(obj) ==
    IF obj.k = "date" THEN DateIso(obj.y, obj.mo, obj.d)
    ELSE IF obj.k = "time" THEN TimeIso(obj.h, obj.mi, obj.s)
    ELSE DateIso(obj.y, obj.mo, obj.d) \o "T" \o TimeIso(obj.h, obj.mi, obj.s)

\* The extended formats YYYY-MM-DD and HH[:MM[:SS]].
ParseDateText(s) ==
    IF /\ Len(s) = 10
       /\ CharAt(s, 5) = "-" /\ CharAt(s, 8) = "-"
       /\ AllDigits(SubSeq(s, 1, 4)) /\ AllDigits(SubSeq(s, 6, 7)) /\ AllDigits(SubSeq(s, 9, 10))
    THEN LET y == ParseNat(SubSeq(s, 1, 4), 0)
             mo == ParseNat(SubSeq(s, 6, 7), 0)
             d == ParseNat(SubSeq(s, 9, 10), 0)
         IN  IF y >= 1 /\ mo \in 1..12 /\ d >= 1 /\ d <= DaysInMonth(y, mo)
             THEN Date(y, mo, d)
             ELSE Raise("ValueError")
    ELSE Raise("ValueError")

ParseTimeText(s) ==
    IF /\ Len(s) \in {2, 5, 8}
       /\ AllDigits(SubSeq(s, 1, 2))
       /\ (Len(s) >= 5 => CharAt(s, 3) = ":" /\ AllDigits(SubSeq(s, 4, 5)))
       /\ (Len(s) = 8 => CharAt(s, 6) = ":" /\ AllDigits(SubSeq(s, 7, 8)))
    THEN LET h == ParseNat(SubSeq(s, 1, 2), 0)
             mi == IF Len(s) >= 5 THEN ParseNat(SubSeq(s, 4, 5), 0) ELSE 0
             sec == IF Len(s) = 8 THEN ParseNat(SubSeq(s, 7, 8), 0) ELSE 0
         IN  IF h <= 23 /\ mi <= 59 /\ sec <= 59 THEN Time(h, mi, sec)
             ELSE Raise("ValueError")
    ELSE Raise("ValueError")

\* datetime.fromisoformat / date.fromisoformat / time.fromisoformat
fromisoformat(subtype, iso_string) ==
    IF iso_string.k # "str" THEN Raise("TypeError")
    ELSE LET s == iso_string.sv
         IN  IF subtype = "date" THEN ParseDateText(s)
             ELSE IF subtype = "time" THEN ParseTimeText(s)
             ELSE LET dpart == ParseDateText(SubSeq(s, 1, IF Len(s) < 10 THEN Len(s) ELSE 10))
                      tpart == IF Len(s) <= 11 THEN Time(0, 0, 0)
                               ELSE ParseTimeText(SubSeq(s, 12, Len(s)))
                  IN  IF IsRaise(dpart) \/ Len(s) = 11 THEN Raise("ValueError")
                      ELSE IF IsRaise(tpart) THEN tpart
                      ELSE DateTime(dpart.y, dpart.mo, dpart.d, tpart.h, tpart.mi, tpart.s)

HexChars == "0123456789abcdef"
UpperHexChars == "0123456789ABCDEF"
IsHexChar(c) == \E i \in 1..16 : CharAt(HexChars, i) = c \/ CharAt(UpperHexChars, i) = c
LowerHex(c) ==
    CharAt(HexChars, CHOOSE i \in 1..16 : CharAt(HexChars, i) = c \/ CharAt(UpperHexChars, i) = c)

RECURSIVE RemoveChar(_, _)
RemoveChar(s, c) ==
    IF Len(s) = 0 THEN ""
    ELSE (IF CharAt(s, 1) = c THEN "" ELSE CharAt(s, 1)) \o RemoveChar(SubSeq(s, 2, Len(s)), c)

RECURSIVE AllHex(_)
AllHex(s) == Len(s) = 0 \/ (IsHexChar(CharAt(s, 1)) /\ AllHex(SubSeq(s, 2, Len(s))))

RECURSIVE LowerHexText(_)
LowerHexText(s) ==
    IF Len(s) = 0 THEN "" ELSE LowerHex(CharAt(s, 1)) \o LowerHexText(SubSeq(s, 2, Len(s)))

\* str(uuid): the 32 hexadecimal digits in groups of 8-4-4-4-12.
UuidStr(u) ==
    SubSeq(u.hex, 1, 8) \o "-" \o SubSeq(u.hex, 9, 12) \o "-" \o SubSeq(u.hex, 13, 16)
        \o "-" \o SubSeq(u.hex, 17, 20) \o "-" \o SubSeq(u.hex, 21, 32)

\* UUID(hex): hyphens are dropped, 32 hexadecimal digits must remain.
UuidParse(v) ==
    IF v.k = "none" THEN Raise("TypeError")
    ELSE IF v.k # "str" THEN Raise("AttributeError")
    ELSE LET hex == RemoveChar(v.sv, "-")
         IN  IF Len(hex) # 32 \/ ~AllHex(hex) THEN Raise("ValueError")
             ELSE Uuid(LowerHexText(hex))

B64Alphabet == "ABCDEFGHIJKLMNOPQRSTUVWXYZabcdefghijklmnopqrstuvwxyz0123456789+/"
B64Char(n) == CharAt(B64Alphabet, n + 1)
IsB64Char(c) == \E i \in 1..64 : CharAt(B64Alphabet, i) = c
B64Val(c) == (CHOOSE i \in 1..64 : CharAt(B64Alphabet, i) = c) - 1

\* base64.b64encode(obj).decode('ascii')
RECURSIVE b64encode(_)
b64encode(bs) ==
    IF Len(bs) = 0 THEN ""
    ELSE IF Len(bs) = 1
    THEN B64Char(bs[1] \div 4) \o B64Char((bs[1] % 4) * 16) \o "=="
    ELSE IF Len(bs) = 2
    THEN B64Char(bs[1] \div 4) \o B64Char((bs[1] % 4) * 16 + bs[2] \div 16)
            \o B64Char((bs[2] % 16) * 4) \o "="
    ELSE B64Char(bs[1] \div 4) \o B64Char((bs[1] % 4) * 16 + bs[2] \div 16)
            \o B64Char((bs[2] % 16) * 4 + bs[3] \div 64) \o B64Char(bs[3] % 64)
            \o b64encode(SubSeq(bs, 4, Len(bs)))

\* binascii.a2b_base64 without strict mode: characters outside the alphabet
\* are skipped, a completed padding ends the input, and an incomplete final
\* group is an error.
RECURSIVE a2b_base64(_, _, _, _, _, _)
a2b_base64(s, i, quad_pos, leftchar, pads, out) ==
    IF i > Len(s)
    THEN (IF quad_pos # 0 THEN Raise("binascii.Error") ELSE Bytes(out))
    ELSE LET c == CharAt(s, i)
         IN  IF c = "="
             THEN IF quad_pos >= 2 /\ quad_pos + pads + 1 >= 4
                  THEN Bytes(out)
                  ELSE a2b_base64(s, i + 1, quad_pos, leftchar,
                                  IF quad_pos >= 2 THEN pads + 1 ELSE pads, out)
             ELSE IF ~IsB64Char(c)
             THEN a2b_base64(s, i + 1, quad_pos, leftchar, pads, out)
             ELSE LET v == B64Val(c)
                  IN  IF quad_pos = 0
                      THEN a2b_base64(s, i + 1, 1, v, 0, out)
                      ELSE IF quad_pos = 1
                      THEN a2b_base64(s, i + 1, 2, v % 16, 0,
                                      Append(out, leftchar * 4 + v \div 16))
                      ELSE IF quad_pos = 2
                      THEN a2b_base64(s, i + 1, 3, v % 4, 0,
                                      Append(out, leftchar * 16 + v \div 4))
                      ELSE a2b_base64(s, i + 1, 0, 0, 0, Append(out, leftchar * 64 + v))

\* base64.b64decode(data)
b64decode(v) ==
    IF v.k # "str" THEN Raise("TypeError")
    ELSE a2b_base64(v.sv, 1, 0, 0, 0, <<>>)

RECURSIVE Zeros(_)
Zeros(n) == IF n <= 0 THEN "" ELSE "0" \o Zeros(n - 1)

\* str(decimal) of a finite number (Decimal.__str__).
DecimalStr(x) ==
    LET digits == ToString(x.coeff)
        leftdigits == x.exp + Len(digits)
        dotplace == IF x.exp <= 0 /\ leftdigits > -6 THEN leftdigits ELSE 1
        intpart == IF dotplace <= 0 THEN "0"
                   ELSE IF dotplace >= Len(digits) THEN digits \o Zeros(dotplace - Len(digits))
                   ELSE SubSeq(digits, 1, dotplace)
        fracpart == IF dotplace <= 0 THEN "." \o Zeros(0 - dotplace) \o digits
                    ELSE IF dotplace >= Len(digits) THEN ""
                    ELSE "." \o SubSeq(digits, dotplace + 1, Len(digits))
        e == leftdigits - dotplace
        exp_str == IF e = 0 THEN ""
                   ELSE IF e > 0 THEN "E+" \o ToString(e)
                   ELSE "E-" \o ToString(0 - e)
    IN  (IF x.neg THEN "-" ELSE "") \o intpart \o fracpart \o exp_str

IndexOfChar(s, cs) ==
    IF \E i \in 1..Len(s) : CharAt(s, i) \in cs
    THEN CHOOSE i \in 1..Len(s) : CharAt(s, i) \in cs /\ \A j \in 1..(i - 1) : CharAt(s, j) \notin cs
    ELSE 0

\* Decimal(text): [sign] digits [. digits] [E [sign] digits]
DecimalParseText(s) ==
    LET signed == Len(s) > 0 /\ CharAt(s, 1) \in {"+", "-"}
        neg == Len(s) > 0 /\ CharAt(s, 1) = "-"
        body == IF signed THEN SubSeq(s, 2, Len(s)) ELSE s
        epos == IndexOfChar(body, {"E", "e"})
        mant == IF epos = 0 THEN body ELSE SubSeq(body, 1, epos - 1)
        etext == IF epos = 0 THEN "" ELSE SubSeq(body, epos + 1, Len(body))
        esigned == Len(etext) > 0 /\ CharAt(etext, 1) \in {"+", "-"}
        edigits == IF esigned THEN SubSeq(etext, 2, Len(etext)) ELSE etext
        dot == IndexOfChar(mant, {"."})
        ipart == IF dot = 0 THEN mant ELSE SubSeq(mant, 1, dot - 1)
        fpart == IF dot = 0 THEN "" ELSE SubSeq(mant, dot + 1, Len(mant))
        ok == /\ AllDigits(ipart) /\ AllDigits(fpart)
              /\ Len(ipart) + Len(fpart) > 0
              /\ (epos # 0 => Len(edigits) > 0 /\ AllDigits(edigits))
        e == IF epos = 0 THEN 0
             ELSE IF CharAt(etext, 1) = "-" THEN 0 - ParseNat(edigits, 0)
             ELSE ParseNat(edigits, 0)
    IN  IF ok THEN Decimal(neg, ParseNat(ipart \o fpart, 0), e - Len(fpart))
        ELSE Raise("decimal.InvalidOperation")

\* Decimal(value)
DecimalParse(v) ==
    IF v.k = "str" THEN DecimalParseText(v.sv)
    ELSE IF v.k = "int" THEN Decimal(v.iv < 0, IF v.iv < 0 THEN 0 - v.iv ELSE v.iv, 0)
    ELSE IF v.k = "float" THEN Decimal(v.fv < 0, IF v.fv < 0 THEN 0 - v.fv ELSE v.fv, 0)
    ELSE IF v.k = "bool" THEN Decimal(FALSE, IF v.bv THEN 1 ELSE 0, 0)
    ELSE IF v.k = "decimal" THEN v
    ELSE IF v.k \in {"list", "tuple"} THEN Raise("ValueError")
    ELSE Raise("TypeError")

\* float(x) of a number, as complex(real, imag) converts its arguments.
IsNumber(v) == v.k \in {"int", "float", "bool"}
NumberValue(v) == IF v.k = "int" THEN v.iv ELSE IF v.k = "float" THEN v.fv
                  ELSE IF v.bv THEN 1 ELSE 0

\* complex(real, imag)
MakeComplex(real, imag) ==
    IF IsNumber(real) /\ IsNumber(imag) THEN Complex(NumberValue(real), NumberValue(imag))
    ELSE IF real.k = "complex" /\ IsNumber(imag) THEN Complex(real.re, real.im + NumberValue(imag))
    ELSE IF IsNumber(real) /\ imag.k = "complex"
    THEN Complex(NumberValue(real) - imag.im, imag.re)
    ELSE IF real.k = "complex" /\ imag.k = "complex"
    THEN Complex(real.re - imag.im, real.im + imag.re)
    ELSE Raise("TypeError")

(***************************************************************************)
(* The state: the process-wide handler registry, and one call of the       *)
(* engine as its caller sees it (the value handed to serialize_object, the *)
(* JSON-compatible tree that came out of it or was loaded from storage,    *)
(* and what deserialize_object made of that tree).                         *)
(***************************************************************************)
VARIABLES _TYPE_HANDLERS, pc, input, tree, output

(***************************************************************************)
(* The state of the Zarr integration: the enabled flag of main.py, the     *)
(* registry of stored originals and the active flag of zarr_patching.py,   *)
(* the attributes of the Zarr modules and classes the patches assign       *)
(* (zarr), the two functions of the global json module (json), the Zarr    *)
(* installation the process runs with, the number of patch rounds applied  *)
(* so far, and the last call of the public API with what it gave back.     *)
(***************************************************************************)
VARIABLES _zarr_patching_enabled, _original_zarr_functions, _zarr_patching_active,
          zarr, json, installation, generation, call

(***************************************************************************)
(* Threads of the application that are inside a top-level call of          *)
(* serialize_object or deserialize_object: for each thread, the call it is *)
(* in and how far the call has come.                                       *)
(***************************************************************************)
VARIABLES threads

(***************************************************************************)
(* The interpreter's stack of nested serialize_object calls while a call   *)
(* walks a structure whose containers refer to one another.                *)
(***************************************************************************)
VARIABLES stack

codec_vars == <<_TYPE_HANDLERS, pc, input, tree, output>>
patch_vars == <<_zarr_patching_enabled, _original_zarr_functions, _zarr_patching_active,
                zarr, json, installation, generation, call>>
vars == <<_TYPE_HANDLERS, pc, input, tree, output,
          _zarr_patching_enabled, _original_zarr_functions, _zarr_patching_active,
          zarr, json, installation, generation, call, threads, stack>>

BuiltinHandlers ==
    << "TupleHandler", "DateTimeHandler", "EnumHandler", "UUIDHandler",
       "DataclassHandler", "ComplexHandler", "BytesHandler", "DecimalHandler" >>

\* Handlers an application registers: FailingHandler is the one of
\* tests/test_error_handling.py; RaisingHandler accepts sets and fails to
\* encode them; GreedyHandler accepts every value; ShadowHandler takes over
\* the tuples and the tuple envelopes of the built-in TupleHandler.
CustomHandlers == {"FailingHandler", "RaisingHandler", "GreedyHandler", "ShadowHandler"}

TUPLE_TYPE_MARKER == "__type__"
TUPLE_DATA_MARKER == "__data__"
TUPLE_TYPE_VALUE == "tuple"

\* A mapping with str keys, written as a record.
DictOf(rec) == PyDict([key \in {PyStr(f) : f \in DOMAIN rec} |-> rec[key.sv]])
\* data.get(key): None when the key is absent.
DictGet(data, key) == IF HasKey(data, key) THEN Get(data, key) ELSE PyNone
\* The mapping's keys in the order the interpreter walks them.
DictOrder(data) == SetToSeq(DOMAIN data.m)

\* str(obj) of a value no handler and no container rule accepts.
PyStrOf(obj) ==
    IF obj.k = "object" /\ ClassTable[obj.cls].kind = "unprintable"
    THEN Raise("RuntimeError")
    ELSE IF obj.k = "object"
    THEN PyStr("<" \o TypeModule(obj) \o "." \o TypeName(obj) \o " object at "
                  \o ToString(obj.id) \o ">")
    ELSE PyStr("<" \o TypeName(obj) \o ">")

RECURSIVE serialize_object(_)
RECURSIVE deserialize_object(_)
RECURSIVE Handler_serialize(_, _)
RECURSIVE Handler_deserialize(_, _)

\* [serialize_object(item) for item in items]
SerializeEach(items) ==
    LET rs == [i \in 1..Len(items) |-> serialize_object(items[i])]
    IN  IF AnyRaise(rs) THEN FirstRaise(rs) ELSE PyList(rs)

\* [deserialize_object(item) for item in data]
DeserializeEach(data) ==
    IF ~IsIterable(data) THEN Raise("TypeError")
    ELSE LET items == Iter(data)
             rs == [i \in 1..Len(items) |-> deserialize_object(items[i])]
         IN  IF AnyRaise(rs) THEN FirstRaise(rs) ELSE PyList(rs)

\* {key: serialize_object(value) for key, value in obj.items()}
SerializeValues(obj) ==
    LET keys == DictOrder(obj)
        rs == [i \in 1..Len(keys) |-> serialize_object(obj.m[keys[i]])]
    IN  IF AnyRaise(rs) THEN FirstRaise(rs)
        ELSE PyDict([key \in DOMAIN obj.m |-> serialize_object(obj.m[key])])

\* {key: deserialize_object(value) for key, value in data.items()}
DeserializeValues(data) ==
    LET keys == DictOrder(data)
        rs == [i \in 1..Len(keys) |-> deserialize_object(data.m[keys[i]])]
    IN  IF AnyRaise(rs) THEN FirstRaise(rs)
        ELSE PyDict([key \in DOMAIN data.m |-> deserialize_object(data.m[key])])

(***************************************************************************)
(* TupleHandler                                                            *)
(***************************************************************************)
TupleHandler_can_handle(obj) == obj.k = "tuple"

TupleHandler_serialize(obj) ==
    LET serialized_data == SerializeEach(obj.items)
    IN  IF IsRaise(serialized_data) THEN serialized_data
        ELSE PyDict(Merge(Pair(PyStr(TUPLE_TYPE_MARKER), PyStr(TUPLE_TYPE_VALUE)),
                          Pair(PyStr(TUPLE_DATA_MARKER), serialized_data)))

TupleHandler_can_deserialize(data) ==
    /\ data.k = "dict"
    /\ DictGet(data, TUPLE_TYPE_MARKER) = PyStr(TUPLE_TYPE_VALUE)
    /\ HasKey(data, TUPLE_DATA_MARKER)

\* A decoder that rejects every payload that is not a list.
TupleHandler_deserialize_ListOnly(data) ==
    IF Get(data, TUPLE_DATA_MARKER).k # "list" THEN Raise("TypeError")
    ELSE LET deserialized_data == DeserializeEach(Get(data, TUPLE_DATA_MARKER))
         IN  IF IsRaise(deserialized_data) THEN deserialized_data
             ELSE PyTuple(deserialized_data.items)

TupleHandler_deserialize(data) ==
    LET deserialized_data == DeserializeEach(Get(data, TUPLE_DATA_MARKER))
    IN  IF IsRaise(deserialized_data) THEN deserialized_data
        ELSE PyTuple(deserialized_data.items)

(***************************************************************************)
(* DateTimeHandler                                                         *)
(***************************************************************************)
DateTimeHandler_can_handle(obj) == obj.k \in {"datetime", "date", "time"}

DateTimeHandler_serialize(obj) ==
    DictOf([__type__ |-> PyStr("datetime"),
            __subtype__ |-> PyStr(TypeName(obj)),
            __data__ |-> PyStr(isoformat(obj))])

DateTimeHandler_can_deserialize(data) ==
    /\ data.k = "dict"
    /\ DictGet(data, "__type__") = PyStr("datetime")
    /\ HasKey(data, "__subtype__")
    /\ HasKey(data, "__data__")

DateTimeHandler_deserialize(data) ==
    LET subtype == Get(data, "__subtype__")
        iso_string == Get(data, "__data__")
    IN  IF subtype \in {PyStr("datetime"), PyStr("date"), PyStr("time")}
        THEN fromisoformat(subtype.sv, iso_string)
        ELSE Raise("ValueError")

(***************************************************************************)
(* EnumHandler                                                             *)
(***************************************************************************)
EnumHandler_can_handle(obj) == obj.k = "enum" /\ ~is_zarr_internal_object(obj)

EnumHandler_serialize(obj) ==
    DictOf([__type__ |-> PyStr("enum"),
            __class__ |-> PyStr(QualifiedName(obj.cls)),
            __data__ |-> ClassTable[obj.cls].members[obj.name]])

EnumHandler_can_deserialize(data) ==
    /\ data.k = "dict"
    /\ DictGet(data, "__type__") = PyStr("enum")
    /\ HasKey(data, "__class__")
    /\ HasKey(data, "__data__")

EnumHandler_deserialize(data) ==
    LET enum_class == ImportClass(Get(data, "__class__"))
    IN  IF IsRaise(enum_class) THEN enum_class
        ELSE CallWithValue(enum_class.cls, Get(data, "__data__"))

(***************************************************************************)
(* UUIDHandler                                                             *)
(***************************************************************************)
UUIDHandler_can_handle(obj) == obj.k = "uuid"

UUIDHandler_serialize(obj) ==
    DictOf([__type__ |-> PyStr("uuid"), __data__ |-> PyStr(UuidStr(obj))])

UUIDHandler_can_deserialize(data) ==
    /\ data.k = "dict"
    /\ DictGet(data, "__type__") = PyStr("uuid")
    /\ HasKey(data, "__data__")

UUIDHandler_deserialize(data) == UuidParse(Get(data, "__data__"))

(***************************************************************************)
(* DataclassHandler                                                        *)
(***************************************************************************)
DataclassHandler_can_handle(obj) == obj.k = "dataclass"

DataclassHandler_serialize(obj) ==
    LET raw_data == asdict(obj)
        serialized_data == serialize_object(raw_data)
    IN  IF IsRaise(serialized_data) THEN serialized_data
        ELSE DictOf([__type__ |-> PyStr("dataclass"),
                     __class__ |-> PyStr(QualifiedName(obj.cls)),
                     __data__ |-> serialized_data])

DataclassHandler_can_deserialize(data) ==
    /\ data.k = "dict"
    /\ DictGet(data, "__type__") = PyStr("dataclass")
    /\ HasKey(data, "__class__")
    /\ HasKey(data, "__data__")

DataclassHandler_deserialize(data) ==
    LET dataclass_type == ImportClass(Get(data, "__class__"))
    IN  IF IsRaise(dataclass_type) THEN dataclass_type
        ELSE LET deserialized_data == deserialize_object(Get(data, "__data__"))
             IN  IF IsRaise(deserialized_data) THEN deserialized_data
                 ELSE CallWithKwargs(dataclass_type.cls, deserialized_data)

(***************************************************************************)
(* ComplexHandler                                                          *)
(***************************************************************************)
ComplexHandler_can_handle(obj) == obj.k = "complex"

ComplexHandler_serialize(obj) ==
    DictOf([__type__ |-> PyStr("complex"),
            __data__ |-> DictOf([real |-> PyFloat(obj.re), imag |-> PyFloat(obj.im)])])

ComplexHandler_can_deserialize(data) ==
    /\ data.k = "dict"
    /\ DictGet(data, "__type__") = PyStr("complex")
    /\ DictGet(data, "__data__").k = "dict"
    /\ HasKey(Get(data, "__data__"), "real")
    /\ HasKey(Get(data, "__data__"), "imag")

ComplexHandler_deserialize(data) ==
    LET d == Get(data, "__data__")
    IN  MakeComplex(Get(d, "real"), Get(d, "imag"))

(***************************************************************************)
(* BytesHandler                                                            *)
(***************************************************************************)
BytesHandler_can_handle(obj) == obj.k = "bytes"

BytesHandler_serialize(obj) ==
    DictOf([__type__ |-> PyStr("bytes"), __data__ |-> PyStr(b64encode(obj.bs))])

BytesHandler_can_deserialize(data) ==
    /\ data.k = "dict"
    /\ DictGet(data, "__type__") = PyStr("bytes")
    /\ HasKey(data, "__data__")

BytesHandler_deserialize(data) == b64decode(Get(data, "__data__"))

(***************************************************************************)
(* DecimalHandler                                                          *)
(***************************************************************************)
DecimalHandler_can_handle(obj) == obj.k = "decimal"

DecimalHandler_serialize(obj) ==
    DictOf([__type__ |-> PyStr("decimal"), __data__ |-> PyStr(DecimalStr(obj))])

DecimalHandler_can_deserialize(data) ==
    /\ data.k = "dict"
    /\ DictGet(data, "__type__") = PyStr("decimal")
    /\ HasKey(data, "__data__")

DecimalHandler_deserialize(data) == DecimalParse(Get(data, "__data__"))

(***************************************************************************)
(* Handlers registered by the application.                                 *)
(***************************************************************************)
FailingHandler_can_handle(obj) == obj = PyStr("FAIL")
FailingHandler_serialize(obj) == Raise("RuntimeError")
FailingHandler_can_deserialize(data) == FALSE
FailingHandler_deserialize(data) == data

RaisingHandler_can_handle(obj) == obj.k = "set"
RaisingHandler_serialize(obj) == Raise("RuntimeError")
RaisingHandler_can_deserialize(data) == FALSE
RaisingHandler_deserialize(data) == data

GreedyHandler_can_handle(obj) == TRUE
GreedyHandler_serialize(obj) ==
    DictOf([__type__ |-> PyStr("greedy"), __data__ |-> PyStr(TypeName(obj))])
GreedyHandler_can_deserialize(data) ==
    /\ data.k = "dict"
    /\ DictGet(data, "__type__") = PyStr("greedy")
    /\ HasKey(data, "__data__")
GreedyHandler_deserialize(data) == Get(data, "__data__")

ShadowHandler_can_handle(obj) == obj.k = "tuple"
ShadowHandler_serialize(obj) ==
    LET serialized_data == SerializeEach(obj.items)
    IN  IF IsRaise(serialized_data) THEN serialized_data
        ELSE DictOf([__type__ |-> PyStr("tuple"), __data__ |-> serialized_data,
                     __len__ |-> PyInt(Len(obj.items))])
ShadowHandler_can_deserialize(data) ==
    /\ data.k = "dict"
    /\ DictGet(data, "__type__") = PyStr("tuple")
    /\ HasKey(data, "__data__")
ShadowHandler_deserialize(data) == DeserializeEach(Get(data, "__data__"))

(***************************************************************************)
(* The TypeHandler interface, dispatched on the handler's class.           *)
(***************************************************************************)
Handler_can_handle(h, obj) ==
    CASE h = "TupleHandler" -> TupleHandler_can_handle(obj)
      [] h = "DateTimeHandler" -> DateTimeHandler_can_handle(obj)
      [] h = "EnumHandler" -> EnumHandler_can_handle(obj)
      [] h = "UUIDHandler" -> UUIDHandler_can_handle(obj)
      [] h = "DataclassHandler" -> DataclassHandler_can_handle(obj)
      [] h = "ComplexHandler" -> ComplexHandler_can_handle(obj)
      [] h = "BytesHandler" -> BytesHandler_can_handle(obj)
      [] h = "DecimalHandler" -> DecimalHandler_can_handle(obj)
      [] h = "FailingHandler" -> FailingHandler_can_handle(obj)
      [] h = "RaisingHandler" -> RaisingHandler_can_handle(obj)
      [] h = "GreedyHandler" -> GreedyHandler_can_handle(obj)
      [] h = "ShadowHandler" -> ShadowHandler_can_handle(obj)

Handler_serialize(h, obj) ==
    CASE h = "TupleHandler" -> TupleHandler_serialize(obj)
      [] h = "DateTimeHandler" -> DateTimeHandler_serialize(obj)
      [] h = "EnumHandler" -> EnumHandler_serialize(obj)
      [] h = "UUIDHandler" -> UUIDHandler_serialize(obj)
      [] h = "DataclassHandler" -> DataclassHandler_serialize(obj)
      [] h = "ComplexHandler" -> ComplexHandler_serialize(obj)
      [] h = "BytesHandler" -> BytesHandler_serialize(obj)
      [] h = "DecimalHandler" -> DecimalHandler_serialize(obj)
      [] h = "FailingHandler" -> FailingHandler_serialize(obj)
      [] h = "RaisingHandler" -> RaisingHandler_serialize(obj)
      [] h = "GreedyHandler" -> GreedyHandler_serialize(obj)
      [] h = "ShadowHandler" -> ShadowHandler_serialize(obj)

Handler_can_deserialize(h, data) ==
    CASE h = "TupleHandler" -> TupleHandler_can_deserialize(data)
      [] h = "DateTimeHandler" -> DateTimeHandler_can_deserialize(data)
      [] h = "EnumHandler" -> EnumHandler_can_deserialize(data)
      [] h = "UUIDHandler" -> UUIDHandler_can_deserialize(data)
      [] h = "DataclassHandler" -> DataclassHandler_can_deserialize(data)
      [] h = "ComplexHandler" -> ComplexHandler_can_deserialize(data)
      [] h = "BytesHandler" -> BytesHandler_can_deserialize(data)
      [] h = "DecimalHandler" -> DecimalHandler_can_deserialize(data)
      [] h = "FailingHandler" -> FailingHandler_can_deserialize(data)
      [] h = "RaisingHandler" -> RaisingHandler_can_deserialize(data)
      [] h = "GreedyHandler" -> GreedyHandler_can_deserialize(data)
      [] h = "ShadowHandler" -> ShadowHandler_can_deserialize(data)

Handler_deserialize(h, data) ==
    CASE h = "TupleHandler" -> TupleHandler_deserialize(data)
      [] h = "DateTimeHandler" -> DateTimeHandler_deserialize(data)
      [] h = "EnumHandler" -> EnumHandler_deserialize(data)
      [] h = "UUIDHandler" -> UUIDHandler_deserialize(data)
      [] h = "DataclassHandler" -> DataclassHandler_deserialize(data)
      [] h = "ComplexHandler" -> ComplexHandler_deserialize(data)
      [] h = "BytesHandler" -> BytesHandler_deserialize(data)
      [] h = "DecimalHandler" -> DecimalHandler_deserialize(data)
      [] h = "FailingHandler" -> FailingHandler_deserialize(data)
      [] h = "RaisingHandler" -> RaisingHandler_deserialize(data)
      [] h = "GreedyHandler" -> GreedyHandler_deserialize(data)
      [] h = "ShadowHandler" -> ShadowHandler_deserialize(data)

\* A lookup that walks the registry from its end.
FirstEncoder_Reversed(obj) ==
    IF \E i \in 1..Len(_TYPE_HANDLERS) : Handler_can_handle(_TYPE_HANDLERS[i], obj)
    THEN CHOOSE i \in 1..Len(_TYPE_HANDLERS) :
            /\ Handler_can_handle(_TYPE_HANDLERS[i], obj)
            /\ \A j \in (i + 1)..Len(_TYPE_HANDLERS) :
                  ~Handler_can_handle(_TYPE_HANDLERS[j], obj)
    ELSE 0

\* The first handler of the registry that accepts, 0 when none does.
FirstEncoder(obj) ==
    IF \E i \in 1..Len(_TYPE_HANDLERS) : Handler_can_handle(_TYPE_HANDLERS[i], obj)
    THEN CHOOSE i \in 1..Len(_TYPE_HANDLERS) :
            /\ Handler_can_handle(_TYPE_HANDLERS[i], obj)
            /\ \A j \in 1..(i - 1) : ~Handler_can_handle(_TYPE_HANDLERS[j], obj)
    ELSE 0
FirstDecoder(data) ==
    IF \E i \in 1..Len(_TYPE_HANDLERS) : Handler_can_deserialize(_TYPE_HANDLERS[i], data)
    THEN CHOOSE i \in 1..Len(_TYPE_HANDLERS) :
            /\ Handler_can_deserialize(_TYPE_HANDLERS[i], data)
            /\ \A j \in 1..(i - 1) : ~Handler_can_deserialize(_TYPE_HANDLERS[j], data)
    ELSE 0

(***************************************************************************)
(* serialize_object and deserialize_object                                 *)
(***************************************************************************)
\* An engine that consults the registered handlers before the guard.
serialize_object_HandlersFirst(obj) ==
    IF IsPrimitive(obj) THEN obj
    ELSE IF FirstEncoder(obj) # 0
    THEN Handler_serialize(_TYPE_HANDLERS[FirstEncoder(obj)], obj)
    ELSE IF is_zarr_internal_object(obj) THEN obj
    ELSE IF obj.k = "dict" THEN SerializeValues(obj)
    ELSE IF obj.k = "list" THEN SerializeEach(obj.items)
    ELSE IF obj.k = "tuple" THEN Raise("RuntimeError")
    ELSE IF obj.k = "set"
    THEN LET items == SerializeEach(SetToSeq(obj.elems))
         IN  IF IsRaise(items) THEN items
             ELSE DictOf([__type__ |-> PyStr("set"), __data__ |-> items])
    ELSE PyStrOf(obj)

\* An engine that returns the basic JSON types only after the guard and the
\* handlers have seen them.
serialize_object_PrimitivesLast(obj) ==
    IF is_zarr_internal_object(obj) THEN obj
    ELSE IF FirstEncoder(obj) # 0
    THEN Handler_serialize(_TYPE_HANDLERS[FirstEncoder(obj)], obj)
    ELSE IF IsPrimitive(obj) THEN obj
    ELSE IF obj.k = "dict" THEN SerializeValues(obj)
    ELSE IF obj.k = "list" THEN SerializeEach(obj.items)
    ELSE IF obj.k = "tuple" THEN Raise("RuntimeError")
    ELSE IF obj.k = "set"
    THEN LET items == SerializeEach(SetToSeq(obj.elems))
         IN  IF IsRaise(items) THEN items
             ELSE DictOf([__type__ |-> PyStr("set"), __data__ |-> items])
    ELSE PyStrOf(obj)

serialize_object(obj) ==
    IF IsPrimitive(obj) THEN obj
    ELSE IF is_zarr_internal_object(obj) THEN obj
    ELSE IF FirstEncoder(obj) # 0
    THEN Handler_serialize(_TYPE_HANDLERS[FirstEncoder(obj)], obj)
    ELSE IF obj.k = "dict" THEN SerializeValues(obj)
    ELSE IF obj.k = "list" THEN SerializeEach(obj.items)
    ELSE IF obj.k = "tuple" THEN Raise("RuntimeError")
    ELSE IF obj.k = "set"
    THEN LET items == SerializeEach(SetToSeq(obj.elems))
         IN  IF IsRaise(items) THEN items
             ELSE DictOf([__type__ |-> PyStr("set"), __data__ |-> items])
    ELSE PyStrOf(obj)

deserialize_object(data) ==
    IF IsPrimitive(data) THEN data
    ELSE IF data.k = "dict"
    THEN IF FirstDecoder(data) # 0
         THEN Handler_deserialize(_TYPE_HANDLERS[FirstDecoder(data)], data)
         ELSE IF DictGet(data, "__type__") = PyStr("set") /\ HasKey(data, "__data__")
         THEN LET items == DeserializeEach(Get(data, "__data__"))
              IN  IF IsRaise(items) THEN items ELSE MakeSet(items.items)
         ELSE DeserializeValues(data)
    ELSE IF data.k = "list" THEN DeserializeEach(data)
    ELSE data

(***************************************************************************)
(* The values and trees the calls are made with.                           *)
(***************************************************************************)
SeqsUpTo(S, n) == UNION {[1..m -> S] : m \in 0..n}
SubsetsUpTo(S, n) == {T \in SUBSET S : Cardinality(T) <= n}

Primitives == {PyNone, PyBool(TRUE), PyInt(1), PyFloat(3), PyStr("a")}

DemoRec == Dataclass("Rec", [name |-> PyStr("demo"), version |-> PyTuple(<<PyInt(1), PyInt(0)>>)])

NativeLeaves ==
    { Date(2025, 1, 19), Time(12, 0, 0), DateTime(2025, 1, 19, 12, 0, 0),
      EnumMember("Status", "ACTIVE"), EnumMember("Status", "VERSION"),
      EnumMember("Status", "TAGS"),
      EnumMember("UserDataType", "float32"), EnumMember("ZarrDataType", "float32"),
      EnumMember("Mode", "ON"),
      Uuid("12345678123456781234567812345678"), Uuid("0000000000000000000000000000002a"),
      Complex(3, 4),
      Bytes(<<>>), Bytes(<<97>>), Bytes(<<97, 98>>), Bytes(<<0, 255, 16>>),
      Decimal(FALSE, 123456, -3), Decimal(TRUE, 5, 0), Decimal(FALSE, 150, -2),
      Object("Buffer", 1), Object("ndarray", 1), Object("UserBuffer", 1),
      Object("PrefixDtype", 1), Object("Widget", 1), Object("Unprintable", 1) }

Leaves == Primitives \cup NativeLeaves

\* Elements of the wider containers.
Elements == {PyInt(1), PyStr("a"), PyNone}

Records ==
    {Dataclass("Rec", [name |-> PyStr("demo"), version |-> PyTuple(s)]) :
        s \in SeqsUpTo(Elements, MaxLen)}
    \cup {Dataclass("Box", [inner |-> x]) :
            x \in {PyInt(1), PyTuple(<<PyInt(1)>>), DemoRec, PyTuple(<<DemoRec>>),
                   PyList(<<DemoRec>>)}}
    \cup {Dataclass("Loc", [v |-> PyTuple(<<PyInt(1)>>)])}

\* Plain mappings of the application that happen to use the reserved keys.
Lookalikes ==
    {DictOf([__type__ |-> PyStr(m)]) : m \in {"tuple", "note"}}
    \cup {DictOf([__type__ |-> PyStr(m), __data__ |-> p]) :
            m \in {"tuple", "set", "note"},
            p \in {PyList(<<>>), PyList(<<PyInt(1)>>), PyInt(5)}}

Level1 ==
    Leaves
    \cup {PyTuple(s) : s \in SeqsUpTo(Elements, MaxLen)}
    \cup {PyList(s) : s \in SeqsUpTo(Elements, MaxLen)}
    \cup {Identified(PyList(<<PyInt(1)>>), 2), Identified(PyDict(Pair(PyStr("a"), PyInt(1))), 3)}
    \cup {PyDict([key \in K |-> PyInt(1)]) : K \in SubsetsUpTo({PyStr("a"), PyStr("b"), PyInt(1)}, MaxLen)}
    \cup {PySet(T) : T \in SubsetsUpTo({PyInt(1), PyStr("a"), PyTuple(<<PyInt(1)>>)}, MaxLen)}
    \cup Records
    \cup Lookalikes

\* One more level of nesting around a value.
Wrappers(x) ==
    { PyTuple(<<x>>), PyList(<<x>>), PyDict(Pair(PyStr("a"), x)), PyTuple(<<PyInt(1), x>>) }
    \cup (IF Hashable(x) THEN {PySet({x})} ELSE {})

RECURSIVE ValuesOfDepth(_)
ValuesOfDepth(d) ==
    IF d <= 1 THEN Level1
    ELSE LET inner == ValuesOfDepth(d - 1)
         IN  inner \cup UNION {Wrappers(x) : x \in inner}

Values == ValuesOfDepth(MaxDepth)

Markers ==
    {"tuple", "datetime", "enum", "uuid", "dataclass", "complex", "bytes", "decimal",
     "set", "bogus"}

Payloads ==
    { PyNone, PyInt(5),
      PyStr("not-a-list"), PyStr("2025-01-19"), PyStr("2025-01-19T12:00:00"),
      PyStr("12:00:00"), PyStr("YWI="), PyStr("abc"), PyStr("active"), PyStr("1.50"),
      PyStr("12345678-1234-5678-1234-567812345678"),
      PyList(<<>>), PyList(<<PyInt(1), PyInt(0)>>), PyList(<<PyList(<<PyInt(1)>>)>>),
      EmptyDict,
      DictOf([real |-> PyFloat(3), imag |-> PyFloat(4)]),
      DictOf([real |-> PyStr("x"), imag |-> PyInt(1)]),
      DictOf([real |-> PyInt(1)]),
      DictOf([name |-> PyStr("demo"),
              version |-> DictOf([__type__ |-> PyStr("tuple"),
                                  __data__ |-> PyList(<<PyInt(1), PyInt(0)>>)])]),
      DictOf([inner |-> PyInt(1)]),
      DictOf([name |-> PyStr("demo")]) }

ClassNames ==
    { PyStr("mypkg.Status"), PyStr("mypkg.Rec"), PyStr("mypkg.Box"),
      PyStr("mypkg.Outer.Mode"), PyStr("mypkg.make.<locals>.Loc"),
      PyStr("nonexistent.Class"), PyStr("mypkg.Missing"), PyStr("NoDot"), PyInt(5) }

Subtypes == {PyStr("date"), PyStr("time"), PyStr("datetime"), PyStr("bogus")}

Envelopes ==
    {DictOf([__type__ |-> PyStr(m)]) : m \in Markers}
    \cup {DictOf([__type__ |-> PyStr(m), __data__ |-> p]) : m \in Markers, p \in Payloads}
    \cup {DictOf([__type__ |-> PyStr("datetime"), __subtype__ |-> st]) : st \in Subtypes}
    \cup {DictOf([__type__ |-> PyStr("datetime"), __subtype__ |-> st, __data__ |-> p]) :
            st \in Subtypes, p \in Payloads}
    \cup {DictOf([__type__ |-> PyStr(m), __class__ |-> c]) :
            m \in {"enum", "dataclass"}, c \in ClassNames}
    \cup {DictOf([__type__ |-> PyStr(m), __class__ |-> c, __data__ |-> p]) :
            m \in {"enum", "dataclass"}, c \in ClassNames, p \in Payloads}
    \cup {DictOf([__type__ |-> PyList(<<PyStr("tuple")>>), __data__ |-> PyList(<<>>)])}

\* An envelope below a list, a mapping, a tuple envelope or a malformed one.
TreeWrappers(e) ==
    { PyList(<<e>>),
      PyDict(Pair(PyStr("a"), e)),
      DictOf([__type__ |-> PyStr("tuple"), __data__ |-> PyList(<<e>>)]),
      DictOf([__type__ |-> PyStr("tuple"), extra |-> e]) }

Trees ==
    Primitives \cup {PyList(s) : s \in SeqsUpTo(Elements, MaxLen)}
    \cup Envelopes \cup UNION {TreeWrappers(e) : e \in Envelopes}

\* The calls made while the application also registers handlers.
ProbeValues ==
    Leaves \cup Lookalikes
    \cup { PyTuple(<<>>), PyTuple(<<PyInt(42)>>), PyList(<<PyInt(1)>>),
           PyList(<<PyTuple(<<PyInt(1)>>)>>), PyDict(Pair(PyStr("a"), PyTuple(<<PyInt(1)>>))),
           PySet({PyInt(1)}), PySet({}), PyList(<<PySet({PyInt(1)})>>),
           PyTuple(<<Object("Buffer", 1)>>), PyStr("FAIL"), DemoRec,
           EnumMember("Priority", "LOW"), EnumMember("Color", "RED") }

ProbeTrees ==
    { DictOf([__type__ |-> PyStr("tuple")]),
      DictOf([__type__ |-> PyStr("bogus"), __data__ |-> PyList(<<PyInt(1), PyInt(2), PyInt(3)>>)]),
      DictOf([__type__ |-> PyStr("tuple"), __data__ |-> PyStr("not-a-list")]),
      DictOf([__type__ |-> PyStr("tuple"), __data__ |-> PyList(<<PyInt(1)>>)]),
      DictOf([__type__ |-> PyStr("greedy"), __data__ |-> PyStr("tuple")]),
      DictOf([__type__ |-> PyStr("set"), __data__ |-> PyList(<<PyInt(1)>>)]),
      PyList(<<PyInt(1)>>), EmptyDict }

(***************************************************************************)
(* The Zarr integration: main.py and zarr_patching.py.                     *)
(*                                                                         *)
(* A function, class or method object is known by what it is (kind), by    *)
(* who wrote it (impl: Zarr's or the standard library's original, or an    *)
(* enhanced replacement) and, for a replacement, by the patch round that   *)
(* created it: every round defines its replacement classes and functions   *)
(* anew, so two rounds never give the same object.                         *)
(***************************************************************************)
Original(kind) == [kind |-> kind, impl |-> "original", gen |-> 0]
Enhanced(kind, n) == [kind |-> kind, impl |-> "enhanced", gen |-> n]
Missing == [kind |-> "missing", impl |-> "none", gen |-> 0]

\* Reading an attribute off a class: a classmethod comes out as a method bound
\* to the class, any other object as itself.
GetAttr(o) == IF o.kind = "classmethod" THEN [o EXCEPT !.kind = "method"] ELSE o

V3META_ENCODER == "zarr.core.metadata.v3.V3JsonEncoder"
GROUP_ENCODER == "zarr.core.group.V3JsonEncoder"
ZarrAttributes ==
    { V3META_ENCODER, GROUP_ENCODER, "ArrayV3Metadata.from_dict",
      "Attributes.__setitem__", "Attributes.__getitem__",
      "GroupMetadata.to_buffer_dict", "GroupMetadata.from_dict",
      "ArrayV3Metadata.to_buffer_dict" }

\* The Zarr a process may run with: whether validate_zarr_version accepts it,
\* whether zarr.core.group holds its own reference to V3JsonEncoder, whether
\* zarr.core.attributes can be imported.
Installations ==
    [supported : BOOLEAN, group_imports_encoder : BOOLEAN, attributes_module : BOOLEAN]
StandardInstallation ==
    [supported |-> TRUE, group_imports_encoder |-> TRUE, attributes_module |-> TRUE]

\* The attributes as Zarr defines them.
Pristine(inst) ==
    [a \in ZarrAttributes |->
        CASE a = V3META_ENCODER -> Original("class")
          [] a = GROUP_ENCODER ->
                IF inst.group_imports_encoder THEN Original("class") ELSE Missing
          [] a \in {"ArrayV3Metadata.from_dict", "GroupMetadata.from_dict"} ->
                Original("classmethod")
          [] a \in {"Attributes.__setitem__", "Attributes.__getitem__"} ->
                IF inst.attributes_module THEN Original("function") ELSE Missing
          [] OTHER -> Original("function")]

\* The attributes of the json module the package reads or assigns.
JsonAttributes == {"dumps", "loads", "_original_dumps", "_original_loads"}
PristineJson ==
    [f \in JsonAttributes |->
        IF f \in {"dumps", "loads"} THEN Original("function") ELSE Missing]

NoOriginals == [name \in {} |-> Missing]

validate_zarr_version(inst) == IF inst.supported THEN PyNone ELSE Raise("ImportError")

\* What the functions of zarr_patching.py read and write, as one record.
PatchState ==
    [originals |-> _original_zarr_functions, zarr |-> zarr,
     active |-> _zarr_patching_active, warned |-> FALSE]

\* A mutation: _store_original_function without the "name not in" test.
_store_original_function_Overwriting(originals, name, func) ==
    [n \in (DOMAIN originals) \cup {name} |-> IF n = name THEN func ELSE originals[n]]

_store_original_function(originals, name, func) ==
    IF name \in DOMAIN originals THEN originals
    ELSE [n \in (DOMAIN originals) \cup {name} |-> IF n = name THEN func ELSE originals[n]]

\* Round n of patch_v3_json_encoder: the original encoder class is stored,
\* the new subclass is assigned in zarr.core.metadata.v3 and, where
\* zarr.core.group has the attribute, there too.
patch_v3_json_encoder(p, n) ==
    LET stored == _store_original_function(p.originals, "V3JsonEncoder", p.zarr[V3META_ENCODER])
        z1 == [p.zarr EXCEPT ![V3META_ENCODER] = Enhanced("class", n)]
        z2 == IF z1[GROUP_ENCODER] # Missing
              THEN [z1 EXCEPT ![GROUP_ENCODER] = Enhanced("class", n)]
              ELSE z1
    IN  [p EXCEPT !.originals = stored, !.zarr = z2, !.active = TRUE]

\* One "store the original, assign the replacement" block of
\* patch_zarr_v3_json_loading, skipped where the attribute does not exist.
PatchAttribute(p, name, kind, n) ==
    IF p.zarr[name] = Missing THEN p
    ELSE [p EXCEPT !.originals = _store_original_function(@, name, GetAttr(p.zarr[name])),
                   !.zarr[name] = Enhanced(kind, n)]

patch_zarr_v3_json_loading(p, n) ==
    LET p1 == PatchAttribute(p, "ArrayV3Metadata.from_dict", "classmethod", n)
        p2 == PatchAttribute(p1, "Attributes.__setitem__", "function", n)
        p3 == PatchAttribute(p2, "Attributes.__getitem__", "function", n)
        p4 == PatchAttribute(p3, "GroupMetadata.to_buffer_dict", "function", n)
    IN  PatchAttribute(p4, "GroupMetadata.from_dict", "classmethod", n)

\* One "if name in _original_zarr_functions: attribute = stored" block.
RestoreAttribute(p, name, attr) ==
    IF name \in DOMAIN p.originals
    THEN [p EXCEPT !.zarr[attr] = p.originals[name]]
    ELSE p

restore_original_zarr_functions(p) ==
    IF DOMAIN p.originals = {} THEN [p EXCEPT !.warned = TRUE]
    ELSE LET p1 == RestoreAttribute(p, "V3JsonEncoder", V3META_ENCODER)
             p2 == RestoreAttribute(p1, "ArrayV3Metadata.from_dict", "ArrayV3Metadata.from_dict")
             p3 == IF installation.attributes_module
                   THEN RestoreAttribute(
                            RestoreAttribute(p2, "Attributes.__setitem__", "Attributes.__setitem__"),
                            "Attributes.__getitem__", "Attributes.__getitem__")
                   ELSE p2
             p4 == RestoreAttribute(p3, "GroupMetadata.to_buffer_dict", "GroupMetadata.to_buffer_dict")
             p5 == RestoreAttribute(p4, "GroupMetadata.from_dict", "GroupMetadata.from_dict")
         IN  [p5 EXCEPT !.originals = NoOriginals, !.active = FALSE]

\* A mutation: enable_universal_serialization that keeps whatever json.dumps
\* and json.loads are at the time of the call as the originals.
enable_universal_serialization_Recapturing(p, n) ==
    [p EXCEPT !.json = [p.json EXCEPT !["_original_dumps"] = p.json["dumps"],
                                      !["_original_loads"] = p.json["loads"],
                                      !["dumps"] = Enhanced("function", n),
                                      !["loads"] = Enhanced("function", n)]]

\* serialization.enable_universal_serialization, the one function of the
\* package that assigns json.dumps and json.loads; main.py never calls it.
\* Call n of it keeps the originals unless some are kept already, assigns its
\* two new wrappers and, where Zarr 3 can be imported, its replacement of
\* to_buffer_dict.  p holds the json module and the Zarr attributes.
enable_universal_serialization(p, n) ==
    LET kept == IF p.json["_original_dumps"] = Missing
                THEN [p.json EXCEPT !["_original_dumps"] = p.json["dumps"],
                                    !["_original_loads"] = p.json["loads"]]
                ELSE p.json
        j == [kept EXCEPT !["dumps"] = Enhanced("function", n),
                          !["loads"] = Enhanced("function", n)]
        z == IF installation.supported
             THEN [p.zarr EXCEPT !["ArrayV3Metadata.to_buffer_dict"] = Enhanced("function", n),
                                 !["GroupMetadata.to_buffer_dict"] = Enhanced("function", n)]
             ELSE p.zarr
    IN  [json |-> j, zarr |-> z]

disable_universal_serialization(p) ==
    IF p.json["_original_dumps"] # Missing
    THEN [p EXCEPT !.json = [p.json EXCEPT !["dumps"] = p.json["_original_dumps"],
                                           !["loads"] = p.json["_original_loads"],
                                           !["_original_dumps"] = Missing,
                                           !["_original_loads"] = Missing]]
    ELSE p

(***************************************************************************)
(* The global json module, for the values json itself knows: what          *)
(* json.loads(json.dumps(obj)) gives depends on the two function objects   *)
(* the module holds at the time of the call.                               *)
(***************************************************************************)
\* The member name json writes for a mapping key.
JsonKey(key) ==
    IF key.k = "str" THEN key
    ELSE IF key.k = "int" THEN PyStr(ToString(key.iv))
    ELSE IF key.k = "none" THEN PyStr("null")
    ELSE IF key.k = "bool" THEN PyStr(IF key.bv THEN "true" ELSE "false")
    ELSE PyStr("float")

RECURSIVE JSONEncoder_encode(_)
JSONEncoder_encode(obj) ==
    IF IsPrimitive(obj) THEN obj
    ELSE IF obj.k \in {"list", "tuple"}
    THEN LET items == [i \in 1..Len(obj.items) |-> JSONEncoder_encode(obj.items[i])]
         IN  IF \E i \in 1..Len(items) : IsRaise(items[i]) THEN Raise("TypeError")
             ELSE PyList(items)
    ELSE IF obj.k = "dict"
    THEN LET m == [key \in DOMAIN obj.m |-> JSONEncoder_encode(obj.m[key])]
         IN  IF \E key \in DOMAIN m : IsRaise(m[key]) \/ ~IsPrimitive(key)
             THEN Raise("TypeError")
             ELSE PyDict([name \in {JsonKey(key) : key \in DOMAIN m} |->
                            m[CHOOSE key \in DOMAIN m : JsonKey(key) = name]])
    ELSE Raise("TypeError")

RECURSIVE _convert_tuples_recursive(_)
_convert_tuples_recursive(obj) ==
    IF obj.k = "tuple"
    THEN DictOf([__type__ |-> PyStr("tuple"), __data__ |-> PyList(obj.items)])
    ELSE IF obj.k = "dict"
    THEN PyDict([key \in DOMAIN obj.m |-> _convert_tuples_recursive(obj.m[key])])
    ELSE IF obj.k = "list"
    THEN PyList([i \in 1..Len(obj.items) |-> _convert_tuples_recursive(obj.items[i])])
    ELSE obj

UniversalJSONEncoder_encode(obj) == JSONEncoder_encode(_convert_tuples_recursive(obj))

RECURSIVE universal_object_hook(_)
universal_object_hook(data) ==
    IF data.k = "dict"
    THEN IF DictGet(data, "__type__") = PyStr("tuple") /\ HasKey(data, "__data__")
         THEN IF IsIterable(Get(data, "__data__"))
              THEN PyTuple(Iter(Get(data, "__data__")))
              ELSE Raise("TypeError")
         ELSE PyDict([key \in DOMAIN data.m |-> universal_object_hook(data.m[key])])
    ELSE IF data.k = "list"
    THEN PyList([i \in 1..Len(data.items) |-> universal_object_hook(data.items[i])])
    ELSE data

\* json.loads(s, object_hook=hook): the decoder hands every mapping of the
\* document to the hook, innermost first.
RECURSIVE ObjectHooked(_)
ObjectHooked(document) ==
    IF document.k = "dict"
    THEN universal_object_hook(
             PyDict([key \in DOMAIN document.m |-> ObjectHooked(document.m[key])]))
    ELSE IF document.k = "list"
    THEN PyList([i \in 1..Len(document.items) |-> ObjectHooked(document.items[i])])
    ELSE document

json_dumps(obj) ==
    IF json["dumps"].impl = "original" THEN JSONEncoder_encode(obj)
    ELSE IF json["_original_dumps"] = Missing THEN Raise("AttributeError")
    ELSE UniversalJSONEncoder_encode(obj)

json_loads(document) ==
    IF IsRaise(document) THEN document
    ELSE IF json["loads"].impl = "original" THEN document
    ELSE IF json["_original_loads"] = Missing THEN Raise("AttributeError")
    ELSE ObjectHooked(document)

\* The values test_global_json_behavior_unchanged sends through the global
\* json module, and a tuple envelope as stored metadata holds it.
JsonProbes ==
    { PyTuple(<<PyInt(1), PyInt(2)>>),
      PyDict(Pair(PyStr("nested"), PyTuple(<<PyInt(4), PyInt(5)>>))),
      PyList(<<PyTuple(<<PyInt(6), PyInt(7)>>)>>),
      DictOf([__type__ |-> PyStr("tuple"), __data__ |-> PyList(<<PyInt(1), PyInt(2)>>)]) }

(***************************************************************************)
(* The public API of main.py.                                              *)
(***************************************************************************)
Called(op, warned, result) == [op |-> op, warned |-> warned, result |-> result]

\* The process after "import zarrcompatibility" with the installation inst.
Imported(inst) ==
    /\ _zarr_patching_enabled = FALSE
    /\ _original_zarr_functions = NoOriginals
    /\ _zarr_patching_active = FALSE
    /\ zarr = Pristine(inst)
    /\ json = PristineJson
    /\ installation = inst
    /\ generation = 0
    /\ call = Called("import", FALSE, PyNone)

(***************************************************************************)
(* The operations.                                                         *)
(***************************************************************************)
Absent == [k |-> "absent"]
Threads == {1, 2}
Idle == [pc |-> "idle"]
Priorities == {-1, 0, 1, 2}

Init ==
    /\ _TYPE_HANDLERS = BuiltinHandlers
    /\ pc = "idle"
    /\ input = Absent
    /\ tree = Absent
    /\ output = Absent
    /\ Imported(StandardInstallation)
    /\ threads = [t \in Threads |-> Idle]
    /\ stack = <<>>

\* A mutation: registration that appends whatever the priority.
RegistryWith_Appending(handlers, handler, priority) == Append(handlers, handler)

\* The list after the body of register_type_handler has run on it.
RegistryWith(handlers, handler, priority) ==
    IF priority > 0 THEN <<handler>> \o handlers ELSE Append(handlers, handler)

register_type_handler(handler, priority) ==
    /\ pc = "idle"
    /\ Len(_TYPE_HANDLERS) < Len(BuiltinHandlers) + MaxHandlers
    /\ _TYPE_HANDLERS' = RegistryWith(_TYPE_HANDLERS, handler, priority)
    /\ UNCHANGED <<pc, input, tree, output>>
    /\ UNCHANGED <<patch_vars, threads, stack>>

\* tree = serialize_object(obj)
Serialize(obj) ==
    /\ pc = "idle"
    /\ input' = obj
    /\ tree' = serialize_object(obj)
    /\ pc' = "serialized"
    /\ UNCHANGED <<_TYPE_HANDLERS, output>>
    /\ UNCHANGED <<patch_vars, threads, stack>>

\* A tree read back from storage, whatever wrote it.
Load(data) ==
    /\ pc = "idle"
    /\ tree' = data
    /\ pc' = "loaded"
    /\ UNCHANGED <<_TYPE_HANDLERS, input, output>>
    /\ UNCHANGED <<patch_vars, threads, stack>>

\* output = deserialize_object(tree)
Deserialize ==
    /\ pc \in {"serialized", "loaded"}
    /\ ~IsRaise(tree)
    /\ output' = deserialize_object(tree)
    /\ pc' = "deserialized"
    /\ UNCHANGED <<_TYPE_HANDLERS, input, tree>>
    /\ UNCHANGED <<patch_vars, threads, stack>>

\* The caller drops the results of the call.
Return ==
    /\ pc # "idle"
    /\ pc' = "idle"
    /\ input' = Absent
    /\ tree' = Absent
    /\ output' = Absent
    /\ UNCHANGED _TYPE_HANDLERS
    /\ UNCHANGED <<patch_vars, threads, stack>>

Next ==
    \/ \E handler \in CustomHandlers, priority \in Priorities :
          register_type_handler(handler, priority)
    \/ \E obj \in ProbeValues : Serialize(obj)
    \/ \E data \in ProbeTrees : Load(data)
    \/ Deserialize
    \/ Return

Spec == Init /\ [][Next]_vars

\* The engine as shipped: only the built-in handlers are registered.
CodecNext ==
    \/ \E obj \in Values : Serialize(obj)
    \/ \E data \in Trees : Load(data)
    \/ Deserialize
    \/ Return

CodecSpec == Init /\ [][CodecNext]_vars

(***************************************************************************)
(* The calls of the public API as steps of the process.                    *)
(***************************************************************************)
\* A mutation: enable_zarr_serialization without its "already enabled" check.
enable_zarr_serialization_Unchecked ==
    /\ installation.supported
    /\ generation < MaxCycles
    /\ LET n == generation + 1
           p == patch_zarr_v3_json_loading(patch_v3_json_encoder(PatchState, n), n)
       IN  /\ _original_zarr_functions' = p.originals
           /\ zarr' = p.zarr
           /\ _zarr_patching_active' = p.active
           /\ generation' = n
    /\ _zarr_patching_enabled' = TRUE
    /\ call' = Called("enable_zarr_serialization", FALSE, PyNone)
    /\ UNCHANGED <<json, installation>>
    /\ UNCHANGED <<codec_vars, threads, stack>>

\* A mutation: enable_zarr_serialization that also turns on the universal
\* serialization of serialization.py.
enable_zarr_serialization_Universal ==
    /\ IF _zarr_patching_enabled
       THEN /\ call' = Called("enable_zarr_serialization", TRUE, PyNone)
            /\ UNCHANGED <<_zarr_patching_enabled, _original_zarr_functions,
                           _zarr_patching_active, zarr, generation, json>>
       ELSE IF IsRaise(validate_zarr_version(installation))
       THEN /\ call' = Called("enable_zarr_serialization", FALSE, Raise("ImportError"))
            /\ UNCHANGED <<_zarr_patching_enabled, _original_zarr_functions,
                           _zarr_patching_active, zarr, generation, json>>
       ELSE /\ generation < MaxCycles
            /\ LET n == generation + 1
                   p == patch_zarr_v3_json_loading(patch_v3_json_encoder(PatchState, n), n)
               IN  /\ _original_zarr_functions' = p.originals
                   /\ zarr' = p.zarr
                   /\ _zarr_patching_active' = p.active
                   /\ generation' = n
                   /\ json' = enable_universal_serialization([json |-> json, zarr |-> zarr], n).json
            /\ _zarr_patching_enabled' = TRUE
            /\ call' = Called("enable_zarr_serialization", FALSE, PyNone)
    /\ UNCHANGED installation
    /\ UNCHANGED <<codec_vars, threads, stack>>

enable_zarr_serialization ==
    /\ IF _zarr_patching_enabled
       THEN /\ call' = Called("enable_zarr_serialization", TRUE, PyNone)
            /\ UNCHANGED <<_zarr_patching_enabled, _original_zarr_functions,
                           _zarr_patching_active, zarr, generation>>
       ELSE IF IsRaise(validate_zarr_version(installation))
       THEN /\ call' = Called("enable_zarr_serialization", FALSE, Raise("ImportError"))
            /\ UNCHANGED <<_zarr_patching_enabled, _original_zarr_functions,
                           _zarr_patching_active, zarr, generation>>
       ELSE /\ generation < MaxCycles
            /\ LET n == generation + 1
                   p == patch_zarr_v3_json_loading(patch_v3_json_encoder(PatchState, n), n)
               IN  /\ _original_zarr_functions' = p.originals
                   /\ zarr' = p.zarr
                   /\ _zarr_patching_active' = p.active
                   /\ generation' = n
            /\ _zarr_patching_enabled' = TRUE
            /\ call' = Called("enable_zarr_serialization", FALSE, PyNone)
    /\ UNCHANGED <<json, installation>>
    /\ UNCHANGED <<codec_vars, threads, stack>>

\* A mutation: disable_zarr_serialization that restores the attributes but
\* leaves the enabled flag set.
disable_zarr_serialization_KeepsFlag ==
    /\ IF ~_zarr_patching_enabled
       THEN /\ call' = Called("disable_zarr_serialization", TRUE, PyNone)
            /\ UNCHANGED <<_original_zarr_functions, _zarr_patching_active, zarr>>
       ELSE LET p == restore_original_zarr_functions(PatchState)
            IN  /\ _original_zarr_functions' = p.originals
                /\ zarr' = p.zarr
                /\ _zarr_patching_active' = p.active
                /\ call' = Called("disable_zarr_serialization", p.warned, PyNone)
    /\ UNCHANGED <<_zarr_patching_enabled, generation, json, installation>>
    /\ UNCHANGED <<codec_vars, threads, stack>>

disable_zarr_serialization ==
    /\ IF ~_zarr_patching_enabled
       THEN /\ call' = Called("disable_zarr_serialization", TRUE, PyNone)
            /\ UNCHANGED <<_zarr_patching_enabled, _original_zarr_functions,
                           _zarr_patching_active, zarr>>
       ELSE LET p == restore_original_zarr_functions(PatchState)
            IN  /\ _original_zarr_functions' = p.originals
                /\ zarr' = p.zarr
                /\ _zarr_patching_active' = p.active
                /\ _zarr_patching_enabled' = FALSE
                /\ call' = Called("disable_zarr_serialization", p.warned, PyNone)
    /\ UNCHANGED <<generation, json, installation>>
    /\ UNCHANGED <<codec_vars, threads, stack>>

is_zarr_serialization_enabled ==
    /\ call' = Called("is_zarr_serialization_enabled", FALSE, PyBool(_zarr_patching_enabled))
    /\ UNCHANGED <<_zarr_patching_enabled, _original_zarr_functions,
                   _zarr_patching_active, zarr, generation, json, installation>>
    /\ UNCHANGED <<codec_vars, threads, stack>>

\* loaded = json.loads(json.dumps(obj)), a call of the application into the
\* global json module.
JsonRoundTrip(obj) ==
    /\ call' = [op |-> "json.loads(json.dumps(obj))", warned |-> FALSE,
                result |-> json_loads(json_dumps(obj)), obj |-> obj]
    /\ UNCHANGED <<_zarr_patching_enabled, _original_zarr_functions,
                   _zarr_patching_active, zarr, generation, json, installation>>
    /\ UNCHANGED <<codec_vars, threads, stack>>

PatchInit ==
    /\ _TYPE_HANDLERS = BuiltinHandlers
    /\ pc = "idle"
    /\ input = Absent
    /\ tree = Absent
    /\ output = Absent
    /\ \E inst \in Installations : Imported(inst)
    /\ threads = [t \in Threads |-> Idle]
    /\ stack = <<>>

PatchNext ==
    \/ enable_zarr_serialization
    \/ disable_zarr_serialization
    \/ is_zarr_serialization_enabled
    \/ \E obj \in JsonProbes : JsonRoundTrip(obj)

PatchSpec == PatchInit /\ [][PatchNext]_vars

(***************************************************************************)
(* Calls in several threads.  The engine takes no lock: a top-level call   *)
(* looks its argument up in the registry, then the comprehension of the    *)
(* rule or handler it found calls serialize_object / deserialize_object    *)
(* on one item after the other, each of these calls reading                *)
(* _TYPE_HANDLERS as it is at that moment.  Another thread runs between    *)
(* any two of them.                                                        *)
(***************************************************************************)
ThreadValues ==
    { PyList(<<PyTuple(<<PyInt(1)>>), PyTuple(<<PyInt(1)>>)>>),
      PyTuple(<<PyTuple(<<PyInt(1)>>)>>) }

ThreadTrees ==
    { PyList(<<DictOf([__type__ |-> PyStr("tuple"), __data__ |-> PyList(<<PyInt(1)>>)]),
               DictOf([__type__ |-> PyStr("tuple"), __data__ |-> PyList(<<PyInt(1)>>)])>>),
      DictOf([__type__ |-> PyStr("tuple"),
              __data__ |-> PyList(<<DictOf([__type__ |-> PyStr("tuple"),
                                            __data__ |-> PyList(<<PyInt(1)>>)])>>)]) }

\* Handlers whose serialize and deserialize walk the items of their argument.
WalkingHandlers == {"TupleHandler", "ShadowHandler"}

\* The rule the top-level lookup of a call selects: the first handler that
\* accepts, else the plain list rule.
RuleOf(op, obj) ==
    IF op = "serialize"
    THEN IF FirstEncoder(obj) # 0 THEN _TYPE_HANDLERS[FirstEncoder(obj)] ELSE "list"
    ELSE IF obj.k = "dict" /\ FirstDecoder(obj) # 0 THEN _TYPE_HANDLERS[FirstDecoder(obj)]
    ELSE "list"

\* The items the comprehension of the rule walks.
ItemsOf(op, obj) ==
    IF op = "serialize" THEN obj.items
    ELSE IF obj.k = "dict" THEN Get(obj, "__data__").items
    ELSE obj.items

\* A mutation: the comprehension keeps the item instead of its encoding.
EncodeNode_Skipped(op, item) == item

\* serialize_object(item) / deserialize_object(item) inside the comprehension.
EncodeNode(op, item) ==
    IF op = "serialize" THEN serialize_object(item) ELSE deserialize_object(item)

\* What the rule returns once its comprehension has run through.
ResultOf(op, rule, obj, done) ==
    IF rule = "list" THEN PyList(done)
    ELSE IF op = "serialize"
    THEN IF rule = "TupleHandler"
         THEN PyDict(Merge(Pair(PyStr(TUPLE_TYPE_MARKER), PyStr(TUPLE_TYPE_VALUE)),
                           Pair(PyStr(TUPLE_DATA_MARKER), PyList(done))))
         ELSE DictOf([__type__ |-> PyStr("tuple"), __data__ |-> PyList(done),
                      __len__ |-> PyInt(Len(obj.items))])
    ELSE IF rule = "TupleHandler" THEN PyTuple(done)
    ELSE PyList(done)

Returned(op, obj, first, mixed, result) ==
    [pc |-> "returned", op |-> op, obj |-> obj, first |-> first, mixed |-> mixed,
     result |-> result]

\* Thread t enters serialize_object(obj) or deserialize_object(obj): the
\* lookup for the top node.  A handler that does not walk items returns at
\* once.
ThreadCall(t, op, obj) ==
    /\ threads[t].pc = "idle"
    /\ LET rule == RuleOf(op, obj)
       IN  threads' = [threads EXCEPT ![t] =
                IF rule \in WalkingHandlers \cup {"list"}
                THEN [pc |-> "running", op |-> op, obj |-> obj, rule |-> rule,
                      done |-> <<>>, first |-> _TYPE_HANDLERS, mixed |-> FALSE]
                ELSE Returned(op, obj, _TYPE_HANDLERS, FALSE,
                              IF op = "serialize" THEN Handler_serialize(rule, obj)
                              ELSE Handler_deserialize(rule, obj))]
    /\ UNCHANGED <<codec_vars, patch_vars, stack>>

\* The comprehension of thread t handles its next item, which ends the call
\* when the item's encoding raises.
ThreadStep(t) ==
    /\ threads[t].pc = "running"
    /\ Len(threads[t].done) < Len(ItemsOf(threads[t].op, threads[t].obj))
    /\ LET f == threads[t]
           item == ItemsOf(f.op, f.obj)[Len(f.done) + 1]
           r == EncodeNode(f.op, item)
           mixed == f.mixed \/ _TYPE_HANDLERS # f.first
       IN  threads' = [threads EXCEPT ![t] =
                IF IsRaise(r) THEN Returned(f.op, f.obj, f.first, mixed, r)
                ELSE [f EXCEPT !.done = Append(f.done, r), !.mixed = mixed]]
    /\ UNCHANGED <<codec_vars, patch_vars, stack>>

\* The comprehension is through: the call of thread t returns.
ThreadReturn(t) ==
    /\ threads[t].pc = "running"
    /\ Len(threads[t].done) = Len(ItemsOf(threads[t].op, threads[t].obj))
    /\ LET f == threads[t]
       IN  threads' = [threads EXCEPT ![t] =
                Returned(f.op, f.obj, f.first, f.mixed, ResultOf(f.op, f.rule, f.obj, f.done))]
    /\ UNCHANGED <<codec_vars, patch_vars, stack>>

\* The caller in thread t drops the result.
ThreadDone(t) ==
    /\ threads[t].pc = "returned"
    /\ threads' = [threads EXCEPT ![t] = Idle]
    /\ UNCHANGED <<codec_vars, patch_vars, stack>>

ThreadNext ==
    \/ \E handler \in {"ShadowHandler", "GreedyHandler"}, priority \in {0, 1} :
          register_type_handler(handler, priority)
    \/ \E t \in Threads, obj \in ThreadValues : ThreadCall(t, "serialize", obj)
    \/ \E t \in Threads, data \in ThreadTrees : ThreadCall(t, "deserialize", data)
    \/ \E t \in Threads : ThreadStep(t)
    \/ \E t \in Threads : ThreadReturn(t)
    \/ \E t \in Threads : ThreadDone(t)

ThreadSpec == Init /\ [][ThreadNext]_vars

(***************************************************************************)
(* Structures with shared and circular references.  A heap gives every     *)
(* container an address; an item of a container is a primitive or a        *)
(* reference to a container.  serialize_object calls itself for every      *)
(* item of a mapping or list, one interpreter frame per nested call, and   *)
(* the interpreter raises RecursionError when the frames exceed its limit. *)
(***************************************************************************)
Addresses == {1, 2}
Ref(a) == [k |-> "ref", addr |-> a]
Children == {PyInt(1)} \cup {Ref(a) : a \in Addresses}
Cells ==
    {[k |-> "list", items |-> s] : s \in SeqsUpTo(Children, MaxLen)}
    \cup {[k |-> "dict", items |-> <<c>>] : c \in Children}
Heaps == {[k |-> "heap", root |-> 1, cells |-> cs] : cs \in [Addresses -> Cells]}

\* The one key of a mapping on the heap.
HeapKey == PyStr("ref")

Frame(addr) == [addr |-> addr, done |-> <<>>]

\* A mutation: a call that recognises a container it is already inside and
\* puts a marker in its place.
Enter_Detecting(stk, addr) ==
    IF \E i \in 1..Len(stk) : stk[i].addr = addr
    THEN [pc |-> "walking",
          stack |-> [stk EXCEPT ![Len(stk)].done = Append(@, PyStr("<circular>"))],
          tree |-> Absent]
    ELSE IF Len(stk) >= RecursionLimit
    THEN [pc |-> "serialized", stack |-> <<>>, tree |-> Raise("RecursionError")]
    ELSE [pc |-> "walking", stack |-> Append(stk, Frame(addr)), tree |-> Absent]

\* The nested call serialize_object(value) for an item that is a container:
\* a new frame, or RecursionError out of every frame when the interpreter's
\* limit is reached.  Nothing is remembered about the containers entered.
Enter(stk, addr) ==
    IF Len(stk) >= RecursionLimit
    THEN [pc |-> "serialized", stack |-> <<>>, tree |-> Raise("RecursionError")]
    ELSE [pc |-> "walking", stack |-> Append(stk, Frame(addr)), tree |-> Absent]

\* The value a frame returns once all items of its container are done.
CellResult(cell, done) ==
    IF cell.k = "dict" THEN PyDict(Pair(HeapKey, done[1])) ELSE PyList(done)

\* A frame returns r to its caller: the call is over, or the caller's
\* comprehension has one more item.
Leave(stk, r) ==
    IF Len(stk) = 1 THEN [pc |-> "serialized", stack |-> <<>>, tree |-> r]
    ELSE [pc |-> "walking",
          stack |-> [SubSeq(stk, 1, Len(stk) - 1) EXCEPT ![Len(stk) - 1].done = Append(@, r)],
          tree |-> Absent]

\* serialize_object(obj) for a container obj of the heap.
HeapCall(h) ==
    /\ pc = "idle"
    /\ input' = h
    /\ pc' = "walking"
    /\ stack' = <<Frame(h.root)>>
    /\ UNCHANGED <<_TYPE_HANDLERS, tree, output, patch_vars, threads>>

\* The innermost call goes on by one item, or returns.
WalkStep ==
    /\ pc = "walking"
    /\ LET top == stack[Len(stack)]
           cell == input.cells[top.addr]
           i == Len(top.done) + 1
           next == IF i > Len(cell.items) THEN Leave(stack, CellResult(cell, top.done))
                   ELSE IF cell.items[i].k = "ref" THEN Enter(stack, cell.items[i].addr)
                   ELSE [pc |-> "walking",
                         stack |-> [stack EXCEPT ![Len(stack)].done =
                                        Append(@, serialize_object(cell.items[i]))],
                         tree |-> Absent]
       IN  /\ pc' = next.pc
           /\ stack' = next.stack
           /\ tree' = next.tree
    /\ UNCHANGED <<_TYPE_HANDLERS, input, output, patch_vars, threads>>

\* The caller drops the result of a finished call.
HeapReturn ==
    /\ pc = "serialized"
    /\ Return

HeapNext ==
    \/ \E h \in Heaps : HeapCall(h)
    \/ WalkStep
    \/ HeapReturn

\* The interpreter keeps running the call it is in.
HeapSpec == Init /\ [][HeapNext]_vars /\ WF_vars(WalkStep)

(***************************************************************************)
(* Universal serialization: the application calls                          *)
(* serialization.enable_universal_serialization and                        *)
(* disable_universal_serialization and uses the global json module.  The   *)
(* record of such a call also tells how many enable calls in a row it      *)
(* closes (streak).                                                        *)
(***************************************************************************)
Streak == IF "streak" \in DOMAIN call /\ call.op = "enable_universal_serialization"
          THEN call.streak ELSE 0

\* A value built from string-keyed mappings, lists and tuples over
\* primitives, none of the mappings using the reserved key.
RECURSIVE BuiltFromContainers(_)
BuiltFromContainers(v) ==
    IF IsPrimitive(v) THEN TRUE
    ELSE IF v.k \in {"list", "tuple"}
    THEN \A i \in 1..Len(v.items) : BuiltFromContainers(v.items[i])
    ELSE IF v.k = "dict"
    THEN /\ \A key \in DOMAIN v.m : key.k = "str" /\ BuiltFromContainers(v.m[key])
         /\ ~HasKey(v, "__type__")
    ELSE FALSE

JsonValues == {v \in Values : BuiltFromContainers(v)}

EnableUniversal ==
    /\ generation < MaxCycles
    /\ LET u == enable_universal_serialization([json |-> json, zarr |-> zarr], generation + 1)
       IN  /\ json' = u.json
           /\ zarr' = u.zarr
    /\ generation' = generation + 1
    /\ call' = [op |-> "enable_universal_serialization", warned |-> FALSE,
                result |-> PyNone, streak |-> Streak + 1]
    /\ UNCHANGED <<_zarr_patching_enabled, _original_zarr_functions,
                   _zarr_patching_active, installation>>
    /\ UNCHANGED <<codec_vars, threads, stack>>

DisableUniversal ==
    /\ LET u == disable_universal_serialization([json |-> json, zarr |-> zarr])
       IN  /\ json' = u.json
           /\ zarr' = u.zarr
    /\ call' = [op |-> "disable_universal_serialization",
                warned |-> json["_original_dumps"] = Missing,
                result |-> PyNone, streak |-> Streak]
    /\ UNCHANGED <<_zarr_patching_enabled, _original_zarr_functions,
                   _zarr_patching_active, installation, generation>>
    /\ UNCHANGED <<codec_vars, threads, stack>>

UniversalNext ==
    \/ EnableUniversal
    \/ DisableUniversal
    \/ \E obj \in JsonValues : JsonRoundTrip(obj)

UniversalSpec == PatchInit /\ [][UniversalNext]_vars

(***************************************************************************)
(* The functions of zarr_patching.py called one by one, as main.py and the *)
(* tests do.  The record of a patch call tells whether every name it       *)
(* stores was in the table already (repeated).                             *)
(***************************************************************************)
\* The Zarr attribute a name of the table stands for.
AttributeOf(name) == IF name = "V3JsonEncoder" THEN V3META_ENCODER ELSE name

is_zarr_patched == _zarr_patching_active /\ DOMAIN _original_zarr_functions # {}

Patched(op, p) ==
    /\ _original_zarr_functions' = p.originals
    /\ zarr' = p.zarr
    /\ _zarr_patching_active' = p.active
    /\ call' = [op |-> op, warned |-> p.warned, result |-> PyNone,
                repeated |-> DOMAIN p.originals = DOMAIN _original_zarr_functions]
    /\ UNCHANGED <<_zarr_patching_enabled, json, installation>>
    /\ UNCHANGED <<codec_vars, threads, stack>>

CallPatchEncoder ==
    /\ generation < MaxCycles
    /\ generation' = generation + 1
    /\ Patched("patch_v3_json_encoder", patch_v3_json_encoder(PatchState, generation + 1))

CallPatchLoading ==
    /\ generation < MaxCycles
    /\ generation' = generation + 1
    /\ Patched("patch_zarr_v3_json_loading", patch_zarr_v3_json_loading(PatchState, generation + 1))

CallRestore ==
    /\ UNCHANGED generation
    /\ Patched("restore_original_zarr_functions", restore_original_zarr_functions(PatchState))

CallIsPatched ==
    /\ call' = Called("is_zarr_patched", FALSE, PyBool(is_zarr_patched))
    /\ UNCHANGED <<_zarr_patching_enabled, _original_zarr_functions,
                   _zarr_patching_active, zarr, generation, json, installation>>
    /\ UNCHANGED <<codec_vars, threads, stack>>

TableNext ==
    \/ CallPatchEncoder
    \/ CallPatchLoading
    \/ CallRestore
    \/ CallIsPatched

TableSpec == PatchInit /\ [][TableNext]_vars

(***************************************************************************)
(* Registrations alone.  The record of a register_type_handler call keeps  *)
(* the handlers and priorities of all registrations so far (registered).   *)
(***************************************************************************)
Registered == IF "registered" \in DOMAIN call THEN call.registered ELSE <<>>

CallRegister(handler, priority) ==
    /\ pc = "idle"
    /\ Len(_TYPE_HANDLERS) < Len(BuiltinHandlers) + MaxHandlers
    /\ _TYPE_HANDLERS' = RegistryWith(_TYPE_HANDLERS, handler, priority)
    /\ call' = [op |-> "register_type_handler", warned |-> FALSE, result |-> PyNone,
                registered |-> Append(Registered, [handler |-> handler, priority |-> priority])]
    /\ UNCHANGED <<pc, input, tree, output>>
    /\ UNCHANGED <<_zarr_patching_enabled, _original_zarr_functions,
                   _zarr_patching_active, zarr, json, installation, generation>>
    /\ UNCHANGED <<threads, stack>>

RegistryNext ==
    \E handler \in CustomHandlers, priority \in Priorities : CallRegister(handler, priority)

RegistrySpec == Init /\ [][RegistryNext]_vars


(***************************************************************************)
(* Vocabulary of the properties.                                           *)
(***************************************************************************)
BuiltinTypeKinds ==
    {"tuple", "date", "time", "datetime", "enum", "uuid", "dataclass", "complex",
     "bytes", "decimal", "set"}

\* Built from JSON primitives, lists, tuples and mappings only.
RECURSIVE Containers(_)
Containers(v) ==
    \/ IsPrimitive(v)
    \/ v.k \in {"list", "tuple"} /\ \A i \in 1..Len(v.items) : Containers(v.items[i])
    \/ v.k = "dict" /\ \A key \in DOMAIN v.m : IsPrimitive(key) /\ Containers(v.m[key])

TupleEnvelope(L) == DictOf([__type__ |-> PyStr("tuple"), __data__ |-> PyList(L)])

HandlerMarkers ==
    {"tuple", "datetime", "enum", "uuid", "dataclass", "complex", "bytes", "decimal"}

RequiredKeys(marker) ==
    CASE marker = "datetime" -> {"__subtype__", "__data__"}
      [] marker \in {"enum", "dataclass"} -> {"__class__", "__data__"}
      [] OTHER -> {"__data__"}

\* The mapping carries the marker with every companion key the marker requires.
WellFormed(data, marker) ==
    /\ DictGet(data, "__type__") = PyStr(marker)
    /\ \A key \in RequiredKeys(marker) : HasKey(data, key)
    /\ marker = "complex" =>
          /\ Get(data, "__data__").k = "dict"
          /\ HasKey(Get(data, "__data__"), "real")
          /\ HasKey(Get(data, "__data__"), "imag")

\* The mapping names a marker of the wire format and misses a required key.
LacksRequiredKey(data) ==
    /\ data.k = "dict"
    /\ \E marker \in HandlerMarkers \cup {"set"} :
          /\ DictGet(data, "__type__") = PyStr(marker)
          /\ ~WellFormed(data, marker)

\* An enum or dataclass envelope whose __class__ names nothing importable.
Unresolvable(data) ==
    /\ data.k = "dict"
    /\ \E marker \in {"enum", "dataclass"} : WellFormed(data, marker)
    /\ IsRaise(ImportClass(Get(data, "__class__")))

MalformedEnvelopes ==
    { DictOf([__type__ |-> PyStr("tuple")]),
      DictOf([__type__ |-> PyStr("bogus"),
              __data__ |-> PyList(<<PyInt(1), PyInt(2), PyInt(3)>>)]),
      DictOf([__type__ |-> PyStr("tuple"), __data__ |-> PyStr("not-a-list")]) }

(***************************************************************************)
(* The properties.                                                         *)
(***************************************************************************)

\* C1: for every value v of a built-in type (tuple, date, time, datetime,
\* enum member, UUID, dataclass instance, complex, bytes, Decimal, set),
\* serialize_object(v) returns and deserialize_object of the result is a value
\* of the same type equal to v.
C1_RoundTripLaw ==
    /\ (pc = "serialized" /\ input.k \in BuiltinTypeKinds) => ~IsRaise(tree)
    /\ (pc = "deserialized" /\ input.k \in BuiltinTypeKinds) =>
          Anonymous(output) = Anonymous(input)

\* C2: for every tuple t, the empty and the one-element tuple included,
\* serialize_object(t) is exactly {"__type__": "tuple", "__data__": L} with L the
\* list of the serialized elements in order, and deserialize_object of that
\* mapping is a tuple equal to t, never a list.
C2_TupleEnvelope ==
    (pc \in {"serialized", "deserialized"} /\ input.k = "tuple") =>
        /\ tree = TupleEnvelope([i \in 1..Len(input.items) |->
                                    serialize_object(input.items[i])])
        /\ pc = "deserialized" => Anonymous(output) = Anonymous(input)

\* C3: for every value built from mappings, lists and tuples at any
\* nesting depth, deserialize_object(serialize_object(v)) restores every tuple
\* as a tuple and every list as a list, so the result equals v.
C3_NestedContainers ==
    (pc = "deserialized" /\ Containers(input)) => Anonymous(output) = Anonymous(input)

\* C4: a dataclass instance whose fields hold tuples is serialized to
\* {"__type__": "dataclass", "__class__": qualified name, "__data__": fields}
\* with every field serialized (a tuple field as a tuple envelope), and
\* deserialize_object reconstructs an equal instance of the same dataclass.
C4_DataclassWithTuples ==
    ( /\ pc \in {"serialized", "deserialized"}
      /\ input.k = "dataclass"
      /\ \E f \in DOMAIN input.fields : input.fields[f].k = "tuple" ) =>
        /\ tree = DictOf([__type__ |-> PyStr("dataclass"),
                          __class__ |-> PyStr(QualifiedName(input.cls)),
                          __data__ |-> DictOf([f \in DOMAIN input.fields |->
                                                 serialize_object(input.fields[f])])])
        /\ pc = "deserialized" => Anonymous(output) = Anonymous(input)

\* C5: a mapping is decoded by a handler exactly when it carries that handler's
\* marker under "__type__" together with all required companion keys, and a
\* mapping that has "__type__" but lacks a required key is returned as a plain
\* mapping with the same keys, without raising.
C5_EnvelopeExclusivity ==
    /\ (pc = "deserialized" /\ tree.k = "dict") =>
          (FirstDecoder(tree) # 0 <=> \E marker \in HandlerMarkers : WellFormed(tree, marker))
    /\ (pc = "deserialized" /\ LacksRequiredKey(tree)) =>
          /\ output.k = "dict"
          /\ DOMAIN output.m = DOMAIN tree.m

\* C6: deserialize_object does not raise on {"__type__": "tuple"}, on
\* {"__type__": "bogus", "__data__": [1, 2, 3]} or on
\* {"__type__": "tuple", "__data__": "not-a-list"}.
C6_MalformedEnvelopes ==
    (pc = "deserialized" /\ tree \in MalformedEnvelopes) => ~IsRaise(output)

\* The text payload has been decoded, character by character.
C6_Witness ==
    /\ pc = "deserialized"
    /\ tree = DictOf([__type__ |-> PyStr("tuple"), __data__ |-> PyStr("not-a-list")])
    /\ output.k = "tuple"
    /\ Len(output.items) = Len("not-a-list")

\* C7: when the serialize of a handler whose can_handle accepted the value
\* raises, serialize_object does not propagate the exception.
C7_EncodeFailureContained ==
    ( /\ pc = "serialized"
      /\ \E i \in 1..Len(_TYPE_HANDLERS) :
            /\ Handler_can_handle(_TYPE_HANDLERS[i], input)
            /\ IsRaise(Handler_serialize(_TYPE_HANDLERS[i], input)) ) =>
        ~IsRaise(tree)

\* C8: on an enum or dataclass envelope whose "__class__" cannot be resolved,
\* deserialize_object does not raise and returns a plain mapping, not a
\* reconstructed object.
C8_UnresolvableClass ==
    (pc = "deserialized" /\ Unresolvable(tree)) =>
        ~IsRaise(output) /\ output.k = "dict"

\* C9: no exception raised by the deserialize of the tuple, UUID, bytes,
\* Decimal or set decoding leaves deserialize_object.
C9_DecodeFailureContained ==
    ( /\ pc = "deserialized"
      /\ tree \in Envelopes
      /\ \E marker \in {"tuple", "uuid", "bytes", "decimal", "set"} :
            WellFormed(tree, marker) ) =>
        ~IsRaise(output)

\* C10: for every value the guard accepts, serialize_object returns that very
\* value, whatever handlers are registered and wherever they stand.
C10_GuardPrecedence ==
    (pc = "serialized" /\ is_zarr_internal_object(input)) => tree = input

\* A guarded buffer went through while a handler accepting everything stood first.
C10_Witness ==
    /\ pc = "serialized"
    /\ _TYPE_HANDLERS[1] = "GreedyHandler"
    /\ input = Object("Buffer", 1)
    /\ tree = input

\* The (module, class name) pairs the guard is meant to match.
GuardEntries ==
    {<<"zarr.core.metadata.v3", "DataType">>, <<"numpy", "dtype">>, <<"numpy", "ndarray">>}
    \cup {zarr_internal_combinations[i] : i \in 1..Len(zarr_internal_combinations)}

\* C11: the guard matches only by exact equality of the (module, class name)
\* pair with an enumerated entry; an instance of a type of any other module,
\* one whose name begins with a guarded module's name included, is never
\* matched and is encoded.
C11_GuardExactMatch ==
    ( /\ pc = "serialized"
      /\ input.k \in {"enum", "dataclass", "object"}
      /\ <<TypeModule(input), TypeName(input)>> \notin GuardEntries ) =>
        /\ ~is_zarr_internal_object(input)
        /\ tree # input

\* A built-in handler would encode the value: it is no primitive, the guard
\* lets it through and a built-in handler accepts it.
CoveredByBuiltin(obj) ==
    /\ ~IsPrimitive(obj)
    /\ ~is_zarr_internal_object(obj)
    /\ \E i \in 1..Len(BuiltinHandlers) : Handler_can_handle(BuiltinHandlers[i], obj)

\* C12: while the handler h last registered with priority > 0 stands first in
\* the registry, serialize_object encodes with h every value h accepts that a
\* built-in handler would otherwise encode, and deserialize_object decodes
\* with h every tree h recognises, not with the built-in handler.
C12_OrderingSensitivity ==
    _TYPE_HANDLERS[1] \in CustomHandlers =>
        /\ ( /\ pc = "serialized"
             /\ CoveredByBuiltin(input)
             /\ Handler_can_handle(_TYPE_HANDLERS[1], input) ) =>
                tree = Handler_serialize(_TYPE_HANDLERS[1], input)
        /\ ( /\ pc = "deserialized"
             /\ tree.k = "dict"
             /\ Handler_can_deserialize(_TYPE_HANDLERS[1], tree) ) =>
                output = Handler_deserialize(_TYPE_HANDLERS[1], tree)

\* A tuple went out and came back through the handler registered over the
\* built-in one: its envelope carries the extra key and it comes back a list.
C12_Witness ==
    /\ pc = "deserialized"
    /\ _TYPE_HANDLERS[1] = "ShadowHandler"
    /\ input = PyTuple(<<PyInt(42)>>)
    /\ HasKey(tree, "__len__")
    /\ output = PyList(<<PyInt(42)>>)

\* C13: a plain mapping given to serialize_object never yields a node
\* carrying "__type__", so deserialize_object gives a mapping back for it and
\* never a non-native value.
C13_TypeKeyOnlyForEncoded ==
    (pc \in {"serialized", "deserialized"} /\ input.k = "dict") =>
        /\ ~IsRaise(tree) => (tree.k = "dict" /\ ~HasKey(tree, "__type__"))
        /\ pc = "deserialized" => output.k = "dict"

\* C14: serialize_object never raises: whatever the value, the call returns,
\* with the textual rendering or a placeholder string for a value that no
\* guard, handler or container rule accepts.
C14_SerializeNeverRaises ==
    pc = "serialized" =>
        /\ ~IsRaise(tree)
        /\ ( /\ input.k = "object"
             /\ ~is_zarr_internal_object(input) ) => tree.k = "str"

\* Every list and mapping of the value was built by the call: none is an
\* object the caller already held.
RECURSIVE NewlyBuilt(_)
NewlyBuilt(v) ==
    IF v.k \in {"list", "tuple"}
    THEN (v.k = "list" => "id" \notin DOMAIN v)
         /\ \A i \in 1..Len(v.items) : NewlyBuilt(v.items[i])
    ELSE IF v.k = "dict"
    THEN "id" \notin DOMAIN v /\ \A key \in DOMAIN v.m : NewlyBuilt(v.m[key])
    ELSE TRUE

\* C15: serialize_object and deserialize_object leave their argument as it
\* was, and every mapping or list in their result is a newly built object.
C15_NoSharingWithArgument ==
    /\ (pc = "serialized" /\ ~IsRaise(tree)) => NewlyBuilt(tree)
    /\ (pc = "deserialized" /\ ~IsRaise(output)) => NewlyBuilt(output)

\* A tree json.dumps accepts: primitives, lists and string-keyed mappings of
\* such trees, and nothing else.
RECURSIVE JsonCompatible(_)
JsonCompatible(v) ==
    IF IsPrimitive(v) THEN TRUE
    ELSE IF v.k = "list"
    THEN "items" \in DOMAIN v /\ \A i \in 1..Len(v.items) : JsonCompatible(v.items[i])
    ELSE IF v.k = "dict"
    THEN \A key \in DOMAIN v.m : JsonCompatible(v.m[key])
    ELSE FALSE

\* C20: when a handler matches the value, what serialize_object returns is a
\* JSON-compatible tree: the payload of the handler's result is itself
\* encoded, so no raw tuple or other non-JSON value is left under "__data__".
C20_HandlerResultSerialized ==
    ( /\ pc = "serialized"
      /\ ~IsPrimitive(input)
      /\ ~is_zarr_internal_object(input)
      /\ FirstEncoder(input) # 0
      /\ ~IsRaise(tree) ) => JsonCompatible(tree)

\* C16: a call of enable_zarr_serialization made while serialization is
\* enabled returns with a warning and changes neither the enabled flag, nor
\* the stored originals, nor any Zarr attribute: no patch is applied again.
C16_EnableWhileEnabled ==
    [][ (_zarr_patching_enabled /\ call'.op = "enable_zarr_serialization") =>
            /\ call'.warned
            /\ call'.result = PyNone
            /\ UNCHANGED <<_zarr_patching_enabled, _original_zarr_functions,
                           _zarr_patching_active, zarr, generation>> ]_vars

C16_Witness ==
    /\ _zarr_patching_enabled
    /\ call = Called("enable_zarr_serialization", TRUE, PyNone)
    /\ generation = 1

\* What the first enable_zarr_serialization of a process leaves behind.
FirstCycle(inst) ==
    patch_zarr_v3_json_loading(
        patch_v3_json_encoder(
            [originals |-> NoOriginals, zarr |-> Pristine(inst),
             active |-> FALSE, warned |-> FALSE], 1), 1)

\* C17: through any number of enable/disable cycles the flag
\* is_zarr_serialization_enabled reports is True after every enable that
\* returns and False after every disable, and a later cycle does what the
\* first did: the same originals are stored and every attribute the first
\* enable replaced is replaced again; disable empties the store.
C17_EnableDisableCycles ==
    /\ (call.op = "enable_zarr_serialization" /\ ~IsRaise(call.result)) =>
            /\ _zarr_patching_enabled
            /\ _zarr_patching_active
            /\ _original_zarr_functions = FirstCycle(installation).originals
            /\ \A a \in ZarrAttributes :
                  FirstCycle(installation).zarr[a].impl = "enhanced" =>
                      zarr[a] = Enhanced(FirstCycle(installation).zarr[a].kind, generation)
    /\ call.op = "disable_zarr_serialization" =>
            /\ ~_zarr_patching_enabled
            /\ ~_zarr_patching_active
            /\ _original_zarr_functions = NoOriginals
    /\ call.op = "is_zarr_serialization_enabled" =>
            call.result = PyBool(_zarr_patching_enabled)

C17_Witness ==
    /\ generation >= 2
    /\ call = Called("disable_zarr_serialization", FALSE, PyNone)

\* C18: after enable followed by disable, every Zarr attribute that enable
\* replaced refers again to the object it held before enable: reading the
\* attribute gives what reading it gave before enable.
C18_DisableRestoresAll ==
    (call.op = "disable_zarr_serialization" /\ ~call.warned) =>
        \A a \in ZarrAttributes : GetAttr(zarr[a]) = GetAttr(Pristine(installation)[a])

\* C19: whatever enable and disable calls were made, json.dumps and
\* json.loads are the objects they were at import, so the global json module
\* still writes a tuple as a plain list and still reads a tuple envelope as
\* a mapping.
C19_GlobalJsonUntouched ==
    /\ json = PristineJson
    /\ call.op = "json.loads(json.dumps(obj))" =>
            /\ JsonCompatible(call.result)
            /\ call.obj.k = "tuple" => call.result = PyList(call.obj.items)
            /\ call.obj.k = "dict" => call.result.k = "dict"

C19_Witness ==
    /\ call.op = "json.loads(json.dumps(obj))"
    /\ call.obj.k \in {"tuple", "dict"}
    /\ _zarr_patching_enabled
    /\ generation >= 2

\* str(key) of a mapping key.
StrOfKey(key) ==
    IF key.k = "str" THEN key
    ELSE IF key.k = "int" THEN PyStr(ToString(key.iv))
    ELSE IF key.k = "none" THEN PyStr("None")
    ELSE PyStr("?")

\* C21: for a mapping, serialize_object returns a mapping whose keys are the
\* keys of the input coerced to strings and whose values are the serialized
\* values of the input.
C21_MappingKeysCoerced ==
    ( /\ pc = "serialized"
      /\ input.k = "dict"
      /\ ~IsRaise(tree) ) =>
        /\ tree.k = "dict"
        /\ DOMAIN tree.m = {StrOfKey(key) : key \in DOMAIN input.m}
        /\ \A key \in DOMAIN input.m :
              /\ StrOfKey(key) \in DOMAIN tree.m
              /\ tree.m[StrOfKey(key)] = serialize_object(input.m[key])

\* What a call made alone, with the registry as it is now, returns.
Sequential(op, obj) ==
    IF op = "serialize" THEN serialize_object(obj) ELSE deserialize_object(obj)

\* C22: a call that ran while no registration changed the registry returns
\* what a sequential call returns, however many other calls ran beside it;
\* a registration that falls between the lookups of one call is not held
\* back, and then equal nodes of one input may come out encoded or decoded
\* differently.
C22_UnsynchronizedRegistry ==
    \A t \in Threads :
        ( /\ threads[t].pc = "returned"
          /\ ~threads[t].mixed
          /\ threads[t].first = _TYPE_HANDLERS ) =>
            threads[t].result = Sequential(threads[t].op, threads[t].obj)

\* Two equal nodes of one list, handled by one call, with different results,
\* while the other thread is inside a call of its own.
C22_Witness ==
    \E t \in Threads :
        /\ threads[t].pc = "returned"
        /\ threads[t].mixed
        /\ threads[t].obj.k = "list"
        /\ threads[t].result.k = "list"
        /\ threads[t].result.items[1] # threads[t].result.items[2]
        /\ \E u \in Threads \ {t} : threads[u].pc = "running"

\* The containers a heap refers to from the addresses S, directly or not.
RefsOf(h, a) == {h.cells[a].items[i].addr :
                    i \in {j \in 1..Len(h.cells[a].items) : h.cells[a].items[j].k = "ref"}}
RECURSIVE Closure(_, _)
Closure(h, S) ==
    LET T == S \cup UNION {RefsOf(h, a) : a \in S}
    IN  IF T = S THEN S ELSE Closure(h, T)

\* The structure at the root contains a reference cycle.
Cyclic(h) == \E a \in Closure(h, {h.root}) : a \in Closure(h, RefsOf(h, a))

\* An acyclic structure written out as a value.
RECURSIVE Unfold(_, _)
Unfold(h, a) ==
    LET cell == h.cells[a]
        items == [i \in 1..Len(cell.items) |->
                    IF cell.items[i].k = "ref" THEN Unfold(h, cell.items[i].addr)
                    ELSE cell.items[i]]
    IN  IF cell.k = "dict" THEN PyDict(Pair(HeapKey, items[1])) ELSE PyList(items)

\* C23: serialize_object on a structure with a reference cycle never returns
\* a value: nothing detects the cycle and the call ends with the
\* interpreter's RecursionError; on every acyclic structure the call comes to
\* an end and returns the value of the structure written out.
C23_CycleExhaustsStack ==
    /\ []((pc = "serialized" /\ input.k = "heap" /\ Cyclic(input)) =>
              tree = Raise("RecursionError"))
    /\ []((pc = "serialized" /\ input.k = "heap" /\ ~Cyclic(input)) =>
              tree = serialize_object(Unfold(input, input.root)))
    /\ (pc = "walking") ~> (pc = "serialized")

\* Two mappings that refer to each other, and the call on them over.
C23_Witness ==
    /\ pc = "serialized"
    /\ input.k = "heap"
    /\ input.cells[1] = [k |-> "dict", items |-> <<Ref(2)>>]
    /\ input.cells[2] = [k |-> "dict", items |-> <<Ref(1)>>]
    /\ tree = Raise("RecursionError")

\* C24: while universal serialization is enabled, json.loads(json.dumps(v))
\* gives v back, every tuple a tuple and every list a list, for every v built
\* from mappings, lists and tuples, a tuple inside a tuple included.
C24_UniversalRoundTrip ==
    ( /\ call.op = "json.loads(json.dumps(obj))"
      /\ json["dumps"].impl = "enhanced"
      /\ json["loads"].impl = "enhanced" ) =>
        call.result = Anonymous(call.obj)

\* C30: after one or more enable_universal_serialization() calls in a row,
\* one disable_universal_serialization() leaves json.dumps and json.loads
\* the original functions again with nothing kept aside, and a
\* disable_universal_serialization() that finds nothing kept aside changes
\* neither the json module nor Zarr.
C30_DisableUniversalRestores ==
    /\ [](call.op = "disable_universal_serialization" => json = PristineJson)
    /\ [][ ( /\ call'.op = "disable_universal_serialization"
             /\ json["_original_dumps"] = Missing ) =>
                 /\ UNCHANGED <<json, zarr>>
                 /\ call'.warned ]_vars

C30_Witness ==
    /\ call.op = "disable_universal_serialization"
    /\ call.streak >= 2
    /\ ~call.warned
    /\ json = PristineJson

\* C25: however often patch_v3_json_encoder and patch_zarr_v3_json_loading
\* are called, every entry of _original_zarr_functions is what Zarr had under
\* that name before any patch, never a replacement, and
\* restore_original_zarr_functions puts exactly these originals back under
\* the names of the table and leaves the table empty.
C25_TableHoldsOriginals ==
    /\ [](\A name \in DOMAIN _original_zarr_functions :
            _original_zarr_functions[name] =
                GetAttr(Pristine(installation)[AttributeOf(name)]))
    /\ [][ call'.op = "restore_original_zarr_functions" =>
             /\ \A name \in DOMAIN _original_zarr_functions :
                    GetAttr(zarr'[AttributeOf(name)]) =
                        GetAttr(Pristine(installation)[AttributeOf(name)])
             /\ _original_zarr_functions' = NoOriginals ]_vars

C25_Witness ==
    /\ call.op \in {"patch_v3_json_encoder", "patch_zarr_v3_json_loading"}
    /\ call.repeated
    /\ zarr[AttributeOf("V3JsonEncoder")].impl = "enhanced"
    /\ zarr["GroupMetadata.from_dict"].impl = "enhanced"
    /\ DOMAIN _original_zarr_functions =
          {"V3JsonEncoder", "ArrayV3Metadata.from_dict", "Attributes.__setitem__",
           "Attributes.__getitem__", "GroupMetadata.to_buffer_dict", "GroupMetadata.from_dict"}

\* C26: in every state reached by enable_zarr_serialization() and
\* disable_zarr_serialization() calls, the enabled flag equals
\* is_zarr_patched(); it is not set while the table of originals is empty and
\* not clear while an attribute of Zarr is still a replacement.
C26_FlagMatchesPatchState ==
    /\ _zarr_patching_enabled = is_zarr_patched
    /\ _zarr_patching_enabled => DOMAIN _original_zarr_functions # {}
    /\ ~_zarr_patching_enabled => \A a \in ZarrAttributes : zarr[a].impl # "enhanced"

Reversed(s) == [i \in 1..Len(s) |-> s[Len(s) + 1 - i]]
HandlersOf(regs) == [i \in 1..Len(regs) |-> regs[i].handler]
WithPriority(regs) == SelectSeq(regs, LAMBDA r : r.priority > 0)
WithoutPriority(regs) == SelectSeq(regs, LAMBDA r : r.priority <= 0)

\* Where the i-th registration, one with priority <= 0, stands in the list.
PlaceOf(regs, i) ==
    Len(WithPriority(regs)) + Len(BuiltinHandlers) + Len(WithoutPriority(SubSeq(regs, 1, i)))

\* C27: after any registrations the list is the handlers registered with a
\* priority above 0, latest first whatever the size of the priority, then the
\* eight built-in handlers in their fixed order, then the handlers registered
\* with priority 0 or below, earliest first; and a handler registered with
\* the default priority 0 is never the one chosen for a value or tree that a
\* built-in or earlier registered handler accepts.
C27_RegistryOrder ==
    /\ _TYPE_HANDLERS = Reversed(HandlersOf(WithPriority(Registered)))
                        \o BuiltinHandlers
                        \o HandlersOf(WithoutPriority(Registered))
    /\ \A i \in 1..Len(Registered) :
          Registered[i].priority = 0 =>
             /\ _TYPE_HANDLERS[PlaceOf(Registered, i)] = Registered[i].handler
             /\ \A obj \in ProbeValues :
                   (\E j \in 1..(PlaceOf(Registered, i) - 1) :
                        Handler_can_handle(_TYPE_HANDLERS[j], obj))
                   => FirstEncoder(obj) # PlaceOf(Registered, i)
             /\ \A data \in ProbeTrees :
                   (\E j \in 1..(PlaceOf(Registered, i) - 1) :
                        Handler_can_deserialize(_TYPE_HANDLERS[j], data))
                   => FirstDecoder(data) # PlaceOf(Registered, i)

C27_Witness ==
    /\ Len(Registered) = 2
    /\ Registered[1].priority > 0
    /\ Registered[2] = [handler |-> "ShadowHandler", priority |-> 0]
    /\ _TYPE_HANDLERS[1] = Registered[1].handler
    /\ _TYPE_HANDLERS[Len(_TYPE_HANDLERS)] = "ShadowHandler"
    /\ FirstEncoder(PyTuple(<<PyInt(42)>>)) < Len(_TYPE_HANDLERS)

RecordFields(v) ==
    IF v.k = "dataclass" THEN {f \in DOMAIN v.fields : v.fields[f].k = "dataclass"} ELSE {}
FieldKeys(v) == {PyStr(g) : g \in DOMAIN v.fields}

\* C29: a record held in a field of another record is written by
\* DataclassHandler as a plain mapping of its fields, without __type__ and
\* __class__ of its own, and deserialize_object gives back the outer record
\* with a plain mapping in that field.
C29_InnerRecordFlattened ==
    /\ (pc \in {"serialized", "deserialized"} /\ RecordFields(input) # {}) =>
          /\ tree.k = "dict"
          /\ DictGet(tree, "__type__") = PyStr("dataclass")
          /\ \A f \in RecordFields(input) :
                LET written == Get(Get(tree, "__data__"), f)
                IN  /\ written.k = "dict"
                    /\ DOMAIN written.m = FieldKeys(input.fields[f])
                    /\ ~HasKey(written, "__type__")
                    /\ ~HasKey(written, "__class__")
    /\ (pc = "deserialized" /\ RecordFields(input) # {}) =>
          /\ output.k = "dataclass"
          /\ output.cls = input.cls
          /\ \A f \in RecordFields(input) :
                /\ output.fields[f].k = "dict"
                /\ DOMAIN output.fields[f].m = FieldKeys(input.fields[f])

C29_Witness ==
    /\ pc = "deserialized"
    /\ input = Dataclass("Box", [inner |-> DemoRec])
    /\ output = Dataclass("Box", [inner |-> PyDict(Pair(PyStr("name"), PyStr("demo"))
                                              @@ Pair(PyStr("version"), PyTuple(<<PyInt(1), PyInt(0)>>)))])

====
